---- MODULE Spec2Model ----
(***************************************************************************)
(* A model of the proof-of-stake replica of this repository: the           *)
(* blockchain engine (lib/src/types/blockchain.rs, block.rs), the peer     *)
(* handler and boot paths of the node (node/src/handler.rs, util.rs,       *)
(* main.rs) and the validator's block proposer (validator/src).            *)
(*                                                                         *)
(* Values are counted in coins (one unit = 10^8 of the smallest unit), so  *)
(* the program constants keep their coin values.  The 64-bit unsigned      *)
(* arithmetic of the engine is kept as arithmetic modulo 2^WordBits: an    *)
(* overflow aborts the call when the build checks overflows (debug         *)
(* profile) and wraps when it does not (release profile).                  *)
(***************************************************************************)
EXTENDS Integers, Sequences, FiniteSets, TLC

VARIABLES
    overflow_checks,  \* build profile: TRUE = overflow aborts, FALSE = wraps
    bc,               \* the process-wide Blockchain (node_lib::BLOCKCHAIN)
    last,             \* the operation handled last: its input and outcome
    proposal,         \* the proposer's block between build and self-append
    role,             \* "boot", then the binary that runs: "node", "validator",
                      \* "joining" (a boot that syncs) or "engine" (the library)
    clock,            \* the wall clock (Utc::now), in ticks
    sync,             \* the boot-time chain sync of a joining replica
    conn,             \* one inbound connection and its handle_connection task
    disk              \* the snapshot file (blockchain_file)

vars == <<overflow_checks, bc, last, proposal, role, clock, sync, conn, disk>>

(***************************************************************************)
(* Bounds of the model.                                                    *)
(***************************************************************************)
WordBits == 26
MaxTime == 2
MaxOrphans == 1
MaxMempool == 1
MaxRelayed == 2
ShortLock == 2
TickSeconds == 400
MaxSlashes == 2
MaxHeight == 13440

(***************************************************************************)
(* Program constants, in coins.                                            *)
(***************************************************************************)
INITIAL_REWARD == 50
HALVING_INTERVAL == 210
STAKE_MINIMUM_AMOUNT == 1000
BLOCK_TRANSACTION_CAP == 20
TOTAL_SUPPLY_CAP == 21000000
GENESIS_LOCKED_UNTIL == 100

(***************************************************************************)
(* With(v, F) is F(v) with v evaluated once: the model's "let v = ...".     *)
(***************************************************************************)
With(v, F(_)) == CHOOSE y \in {F(x) : x \in {v}} : TRUE

(***************************************************************************)
(* Unsigned machine arithmetic.                                            *)
(***************************************************************************)
U64 == 2 ^ WordBits

PANIC == 0 - 1

\* a sum of unsigned values, given as its mathematical value
Wrapped(total) ==
    With(total, LAMBDA t :
        IF t < U64 THEN t
        ELSE IF overflow_checks THEN PANIC ELSE t % U64)

Add64(a, b) ==
    With(a, LAMBDA x : With(b, LAMBDA y :
        IF x = PANIC \/ y = PANIC THEN PANIC ELSE Wrapped(x + y)))

Sub64(a, b) ==
    With(a, LAMBDA x : With(b, LAMBDA y :
        IF x = PANIC \/ y = PANIC THEN PANIC
        ELSE IF x >= y THEN x - y
        ELSE IF overflow_checks THEN PANIC ELSE x - y + U64))

SaturatingSub(a, b) ==
    With(a, LAMBDA x : With(b, LAMBDA y : IF x >= y THEN x - y ELSE 0))

RECURSIVE SumValues(_)
\* iter().map(|output| output.value).sum::<u64>()
SumValues(outputs) ==
    With(outputs, LAMBDA s :
        IF s = <<>> THEN 0
        ELSE Add64(Head(s).value, SumValues(Tail(s))))

(***************************************************************************)
(* Keys, signatures and digests.  A private key is named by its public     *)
(* key; public keys are ordered as the integers are.  A digest is          *)
(* collision free: it is equal for equal values only.                      *)
(***************************************************************************)
Alice == 1
Bob == 2
Keys == {Alice, Bob}
NoValidator == 0

Hash(x) == [h |-> <<x>>]
ZeroHash == [h |-> <<>>]

Sign(msg, key) == [signer |-> key, msg |-> msg]
Verify(sig, msg, pubkey) == sig.signer = pubkey /\ sig.msg = msg

MerkleRoot(transactions) == [root |-> transactions]

\* the first eight bytes of a digest as a big-endian unsigned number
Bytes8(seed) ==
    IF seed = ZeroHash THEN 0
    ELSE With(seed.h[1], LAMBDA b :
             (b.header.timestamp * 977 + b.header.validator * 1301
              + Len(b.transactions) * 613 + b.signature.signer * 389) % U64)

(***************************************************************************)
(* Transactions and blocks.                                                *)
(***************************************************************************)
Output(id, value, pubkey, is_stake, locked_until) ==
    [unique_id |-> id, value |-> value, pubkey |-> pubkey,
     is_stake |-> is_stake, locked_until |-> locked_until]

Input(output, key) ==
    [prev_transaction_output_hash |-> Hash(output),
     signature |-> Sign(Hash(output), key)]

Tx(inputs, outputs) == [inputs |-> inputs, outputs |-> outputs]

BlockHeader(timestamp, prev_block_hash, merkle_root, validator) ==
    [timestamp |-> timestamp, prev_block_hash |-> prev_block_hash,
     merkle_root |-> merkle_root, validator |-> validator]

Block(header, transactions, signature) ==
    [header |-> header, transactions |-> transactions, signature |-> signature]

SeqToSet(s) == {s[i] : i \in DOMAIN s}

MapRemove(f, k) ==
    With(f, LAMBDA g : With(k, LAMBDA key : [x \in DOMAIN g \ {key} |-> g[x]]))
MapInsert(f, k, v) ==
    With(f, LAMBDA g : With(k, LAMBDA key : With(v, LAMBDA value :
        [x \in DOMAIN g \cup {key} |-> IF x = key THEN value ELSE g[x]])))
EmptyMap == [x \in {} |-> 0]

Last(s) == s[Len(s)]

(***************************************************************************)
(* Blockchain::new                                                         *)
(***************************************************************************)
NewBlockchain ==
    [blocks |-> <<>>, utxos |-> EmptyMap, mempool |-> <<>>,
     orphan_children |-> EmptyMap, slashing_history |-> <<>>,
     slashed_amounts |-> EmptyMap,
     \* history: the lottery's answer taken right before each append
     winners |-> <<>>]

block_height(b) == Len(b.blocks)

(***************************************************************************)
(* Blockchain::calculate_stakes and get_next_validator                     *)
(***************************************************************************)
RECURSIVE SetSum(_, _)
SetSum(S, f) ==
    With(S, LAMBDA T : With(f, LAMBDA g :
        IF T = {} THEN 0
        ELSE With(CHOOSE y \in T : TRUE, LAMBDA x : g[x] + SetSum(T \ {x}, g))))

LockedStakeOf(b, pubkey) ==
    With({k \in DOMAIN b.utxos :
             /\ b.utxos[k].output.is_stake
             /\ b.utxos[k].output.locked_until > block_height(b)
             /\ b.utxos[k].output.pubkey = pubkey},
         LAMBDA mine : Wrapped(SetSum(mine, [k \in mine |-> b.utxos[k].output.value])))

HasLockedStake(b, pubkey) ==
    \E k \in DOMAIN b.utxos :
        /\ b.utxos[k].output.is_stake
        /\ b.utxos[k].output.locked_until > block_height(b)
        /\ b.utxos[k].output.pubkey = pubkey

calculate_stakes(b) ==
    With([p \in {q \in Keys : HasLockedStake(b, q)} |->
             IF p \in DOMAIN b.slashed_amounts
             THEN SaturatingSub(LockedStakeOf(b, p), b.slashed_amounts[p])
             ELSE LockedStakeOf(b, p)],
         LAMBDA after :
             [p \in {q \in DOMAIN after : after[q] >= STAKE_MINIMUM_AMOUNT} |-> after[p]])

get_next_validator(b, seed) ==
    With(calculate_stakes(b), LAMBDA stakes :
    With(Wrapped(SetSum(DOMAIN stakes, stakes)), LAMBDA total_stake :
        IF total_stake = 0 \/ total_stake = PANIC THEN NoValidator
        ELSE With(Bytes8(seed) % total_stake, LAMBDA random_value :
             With({p \in DOMAIN stakes :
                      SetSum({q \in DOMAIN stakes : q <= p}, stakes) > random_value},
                  LAMBDA hit :
                      IF hit = {} THEN NoValidator
                      ELSE CHOOSE p \in hit : \A q \in hit : p <= q))))

\* an overflow while the stake table or its total is summed
LotteryPanics(b) ==
    \/ \E p \in Keys : HasLockedStake(b, p) /\ LockedStakeOf(b, p) = PANIC
    \/ With(calculate_stakes(b), LAMBDA stakes :
             Wrapped(SetSum(DOMAIN stakes, stakes)) = PANIC)

(***************************************************************************)
(* Blockchain::rebuild_utxos                                               *)
(***************************************************************************)
\* the referenced outputs stay in the index
RemoveInputs_Kept(utxos, inputs) == utxos

RECURSIVE RemoveInputs(_, _)
RemoveInputs(utxos, inputs) ==
    IF inputs = <<>> THEN utxos
    ELSE With(MapRemove(utxos, Head(inputs).prev_transaction_output_hash),
              LAMBDA removed : RemoveInputs(removed, Tail(inputs)))

RECURSIVE InsertOutputs(_, _)
InsertOutputs(utxos, outputs) ==
    IF outputs = <<>> THEN utxos
    ELSE With(MapInsert(utxos, Hash(Head(outputs)),
                        [marked |-> FALSE, output |-> Head(outputs)]),
              LAMBDA inserted : InsertOutputs(inserted, Tail(outputs)))

RebuildTx(utxos, transaction) ==
    With(RemoveInputs(utxos, transaction.inputs),
         LAMBDA removed : InsertOutputs(removed, transaction.outputs))

RECURSIVE RebuildTxs(_, _)
RebuildTxs(utxos, transactions) ==
    IF transactions = <<>> THEN utxos
    ELSE With(RebuildTx(utxos, Head(transactions)),
              LAMBDA rebuilt : RebuildTxs(rebuilt, Tail(transactions)))

RECURSIVE RebuildBlocks(_, _)
RebuildBlocks(utxos, blocks) ==
    IF blocks = <<>> THEN utxos
    ELSE With(RebuildTxs(utxos, Head(blocks).transactions),
              LAMBDA rebuilt : RebuildBlocks(rebuilt, Tail(blocks)))

rebuild_utxos(b) ==
    With(b, LAMBDA engine :
        [engine EXCEPT !.utxos = RebuildBlocks(engine.utxos, engine.blocks)])

(***************************************************************************)
(* Block::calculate_miner_fees, verify_coinbase_transaction and            *)
(* verify_transactions.  A result is "Ok", an error kind or "Panic".       *)
(***************************************************************************)
RECURSIVE Concat(_)
Concat(seqs) == IF seqs = <<>> THEN <<>> ELSE Head(seqs) \o Concat(Tail(seqs))

\* the inputs, and the outputs, of the transactions after the coinbase
PaidInputs(block) ==
    Concat([i \in 1..(Len(block.transactions) - 1) |->
               block.transactions[i + 1].inputs])

PaidOutputs(block) ==
    Concat([i \in 1..(Len(block.transactions) - 1) |->
               block.transactions[i + 1].outputs])

HasDuplicate(s) == \E i, j \in DOMAIN s : i < j /\ s[i] = s[j]

\* [err |-> ..., fees |-> ...]: the fees, or the error that ends the call
calculate_miner_fees(block, utxos) ==
    With(PaidInputs(block), LAMBDA paid : With(PaidOutputs(block), LAMBDA outs :
    With([i \in DOMAIN paid |-> paid[i].prev_transaction_output_hash], LAMBDA ins :
        IF \/ \E i \in DOMAIN ins : ins[i] \notin DOMAIN utxos
           \/ HasDuplicate(ins)
           \/ HasDuplicate(outs)
        THEN [err |-> "InvalidTransaction", fees |-> 0]
        ELSE With(Sub64(SumValues([i \in DOMAIN ins |-> utxos[ins[i]].output]),
                        SumValues(outs)),
                  LAMBDA fees :
                      IF fees = PANIC THEN [err |-> "Panic", fees |-> 0]
                      ELSE [err |-> "Ok", fees |-> fees]))))

verify_coinbase_transaction(block, utxos) ==
    With(block.transactions[1], LAMBDA coinbase_transaction :
        IF Len(coinbase_transaction.inputs) # 0 THEN "InvalidTransaction"
        ELSE IF Len(coinbase_transaction.outputs) = 0 THEN "InvalidTransaction"
        ELSE With(calculate_miner_fees(block, utxos), LAMBDA miner_fees :
             IF miner_fees.err # "Ok" THEN miner_fees.err
             ELSE With(SumValues(coinbase_transaction.outputs),
                       LAMBDA total_coinbase_outputs :
                  IF total_coinbase_outputs = PANIC THEN "Panic"
                  ELSE IF total_coinbase_outputs # miner_fees.fees
                  THEN "InvalidTransaction"
                  ELSE "Ok")))

RECURSIVE VerifyInputs(_, _, _, _)
\* the input loop of one transaction: [err, seen, input_value]
VerifyInputs(inputs, utxos, seen, input_value) ==
    IF inputs = <<>> THEN [err |-> "Ok", seen |-> seen, input_value |-> input_value]
    ELSE With(Head(inputs), LAMBDA input :
         With(input.prev_transaction_output_hash, LAMBDA key :
            IF key \notin DOMAIN utxos
            THEN [err |-> "InvalidTransaction", seen |-> seen, input_value |-> 0]
            ELSE IF key \in seen
            THEN [err |-> "InvalidTransaction", seen |-> seen, input_value |-> 0]
            ELSE IF ~Verify(input.signature, key, utxos[key].output.pubkey)
            THEN [err |-> "InvalidSignature", seen |-> seen, input_value |-> 0]
            ELSE With(Add64(input_value, utxos[key].output.value), LAMBDA total :
                 IF total = PANIC
                 THEN [err |-> "Panic", seen |-> seen, input_value |-> 0]
                 ELSE With(seen \cup {key}, LAMBDA spent :
                          VerifyInputs(Tail(inputs), utxos, spent, total)))))

RECURSIVE VerifyEach(_, _, _)
VerifyEach(transactions, utxos, seen) ==
    IF transactions = <<>> THEN "Ok"
    ELSE With(Head(transactions), LAMBDA transaction :
         With(VerifyInputs(transaction.inputs, utxos, seen, 0), LAMBDA r :
            IF r.err # "Ok" THEN r.err
            ELSE With(SumValues(transaction.outputs), LAMBDA output_value :
                 IF output_value = PANIC THEN "Panic"
                 ELSE IF r.input_value < output_value THEN "InvalidTransaction"
                 ELSE VerifyEach(Tail(transactions), utxos, r.seen))))

\* the transaction checks, left out
verify_transactions_Unchecked(block, utxos) ==
    IF block.transactions = <<>> THEN "InvalidBlock" ELSE "Ok"

verify_transactions(block, utxos) ==
    IF block.transactions = <<>> THEN "InvalidBlock"
    ELSE With(verify_coinbase_transaction(block, utxos), LAMBDA coinbase :
         IF coinbase # "Ok" THEN coinbase
         ELSE VerifyEach(Tail(block.transactions), utxos, {}))

(***************************************************************************)
(* Blockchain::add_block and process_orphans.  A call returns the engine   *)
(* it leaves and its result.                                               *)
(***************************************************************************)
TipHash(b) == IF b.blocks = <<>> THEN ZeroHash ELSE Hash(Last(b.blocks))

\* the block is dropped instead of parked
ParkOrphan_Dropped(b, block) == b

\* lines 69-73 and 78-82: park the block under its parent's hash
ParkOrphan(b, block) ==
    With(block.header.prev_block_hash, LAMBDA parent :
    With(IF parent \in DOMAIN b.orphan_children
         THEN b.orphan_children[parent] ELSE <<>>, LAMBDA parked :
        [b EXCEPT !.orphan_children = MapInsert(@, parent, Append(parked, block))]))

\* the validator check, left out
CheckValidator_Skipped(b, block) == "Ok"

\* lines 84-94: the proposer must be the lottery's winner
CheckValidator(b, block) ==
    IF LotteryPanics(b) THEN "Panic"
    ELSE With(get_next_validator(b, block.header.prev_block_hash),
              LAMBDA expected_validator :
         IF expected_validator = NoValidator THEN "InvalidValidator"
         ELSE IF block.header.validator # expected_validator THEN "InvalidValidator"
         ELSE "Ok")

\* lines 95-102
CheckSignature(block) ==
    IF Verify(block.signature, Hash(block.header), block.header.validator)
    THEN "Ok" ELSE "InvalidSignature"

\* lines 103-107
CheckMerkleRoot(block) ==
    IF MerkleRoot(block.transactions) = block.header.merkle_root
    THEN "Ok" ELSE "InvalidMerkleRoot"

\* the timestamp check, left out
CheckTimestamp_Skipped(b, block) == "Ok"

\* lines 108-112
CheckTimestamp(b, block) ==
    IF block.header.timestamp <= Last(b.blocks).header.timestamp
    THEN "InvalidBlock" ELSE "Ok"

\* the timestamp check moved to the front
CheckBlock_TimestampFirst(b, block) ==
    With(CheckTimestamp(b, block), LAMBDA timestamp :
    IF timestamp # "Ok" THEN timestamp ELSE
    With(CheckValidator(b, block), LAMBDA validator :
    IF validator # "Ok" THEN validator ELSE
    With(CheckSignature(block), LAMBDA signature :
    IF signature # "Ok" THEN signature ELSE
    With(CheckMerkleRoot(block), LAMBDA merkle_root :
    IF merkle_root # "Ok" THEN merkle_root ELSE
    verify_transactions(block, b.utxos)))))

\* lines 84-114: the checks of a block that extends a non-empty chain
CheckBlock(b, block) ==
    With(CheckValidator(b, block), LAMBDA validator :
    IF validator # "Ok" THEN validator ELSE
    With(CheckSignature(block), LAMBDA signature :
    IF signature # "Ok" THEN signature ELSE
    With(CheckMerkleRoot(block), LAMBDA merkle_root :
    IF merkle_root # "Ok" THEN merkle_root ELSE
    With(CheckTimestamp(b, block), LAMBDA timestamp :
    IF timestamp # "Ok" THEN timestamp ELSE
    verify_transactions(block, b.utxos)))))

\* the mempool, left as it is
RetainUnconfirmed_All(mempool, block) == mempool

\* lines 116-119: drop the confirmed transactions from the mempool
RetainUnconfirmed(mempool, block) ==
    With({Hash(t) : t \in SeqToSet(block.transactions)}, LAMBDA block_transactions :
        SelectSeq(mempool, LAMBDA e : Hash(e.transaction) \notin block_transactions))

\* lines 116-120
PushBlock(b, block) ==
    [b EXCEPT !.mempool = RetainUnconfirmed(@, block),
              !.blocks = Append(@, block),
              !.winners = Append(@, get_next_validator(b, block.header.prev_block_hash))]

RECURSIVE add_block(_, _), process_orphans(_, _), attach_children(_, _, _)

\* the confirmed transactions leave the mempool before the checks
add_block_RetainFirst(b, block) ==
    With([b EXCEPT !.mempool = RetainUnconfirmed(@, block)], LAMBDA retained :
    IF b.blocks = <<>>
    THEN IF block.header.prev_block_hash # ZeroHash
         THEN [bc |-> ParkOrphan(b, block), res |-> "Ok"]
         ELSE With(PushBlock(b, block),
                   LAMBDA pushed : process_orphans(pushed, <<Hash(block)>>))
    ELSE IF block.header.prev_block_hash # Hash(Last(b.blocks))
         THEN [bc |-> ParkOrphan(b, block), res |-> "Ok"]
         ELSE With(CheckBlock(b, block), LAMBDA checked :
              IF checked # "Ok" THEN [bc |-> retained, res |-> checked]
              ELSE With(PushBlock(b, block),
                        LAMBDA pushed : process_orphans(pushed, <<Hash(block)>>))))

\* lines 65-126
add_block(b, block) ==
    IF b.blocks = <<>>
    THEN IF block.header.prev_block_hash # ZeroHash
         THEN [bc |-> ParkOrphan(b, block), res |-> "Ok"]
         ELSE With(PushBlock(b, block),
                   LAMBDA pushed : process_orphans(pushed, <<Hash(block)>>))
    ELSE IF block.header.prev_block_hash # Hash(Last(b.blocks))
         THEN [bc |-> ParkOrphan(b, block), res |-> "Ok"]
         ELSE With(CheckBlock(b, block), LAMBDA checked :
              IF checked # "Ok" THEN [bc |-> b, res |-> checked]
              ELSE With(PushBlock(b, block),
                        LAMBDA pushed : process_orphans(pushed, <<Hash(block)>>)))

\* the drain, left out
process_orphans_Skipped(b, stack) == [bc |-> b, res |-> "Ok"]

\* the work list of process_orphans; a panic of a nested add_block unwinds
process_orphans(b, stack) ==
    IF stack = <<>> THEN [bc |-> b, res |-> "Ok"]
    ELSE With(Last(stack), LAMBDA current_parent :
         With(SubSeq(stack, 1, Len(stack) - 1), LAMBDA rest :
            IF current_parent \in DOMAIN b.orphan_children
            THEN With([b EXCEPT !.orphan_children = MapRemove(@, current_parent)],
                      LAMBDA taken :
                 With(attach_children(taken, b.orphan_children[current_parent], rest),
                      LAMBDA r :
                      IF r.res = "Panic" THEN [bc |-> r.bc, res |-> "Panic"]
                      ELSE process_orphans(r.bc, r.stack)))
            ELSE process_orphans(b, rest)))

\* lines 199-214: the children of one parent, in the order they were parked
attach_children(b, children, stack) ==
    IF children = <<>> THEN [bc |-> b, stack |-> stack, res |-> "Ok"]
    ELSE With(add_block(b, Head(children)), LAMBDA r :
         IF r.res = "Panic" THEN [bc |-> r.bc, stack |-> stack, res |-> "Panic"]
         ELSE IF r.res = "Ok"
         THEN With(Append(stack, Hash(Last(r.bc.blocks))), LAMBDA pushed :
                  attach_children(r.bc, Tail(children), pushed))
         ELSE attach_children(r.bc, Tail(children), stack))

(***************************************************************************)
(* Blockchain::add_to_mempool and clean_mempool                            *)
(***************************************************************************)
SetMarked(utxos, key, flag) ==
    With(utxos, LAMBDA index : With(key, LAMBDA k :
        IF k \in DOMAIN index THEN [index EXCEPT ![k].marked = flag] ELSE index))

RECURSIVE SetAllMarked(_, _, _)
SetAllMarked(utxos, inputs, flag) ==
    IF inputs = <<>> THEN utxos
    ELSE With(SetMarked(utxos, Head(inputs).prev_transaction_output_hash, flag),
              LAMBDA set : SetAllMarked(set, Tail(inputs), flag))

RemoveAt(s, idx) ==
    With(s, LAMBDA t : SubSeq(t, 1, idx - 1) \o SubSeq(t, idx + 1, Len(t)))

\* the lock, taken to hold through the height it names
IsLockedStake_ThroughHeight(utxo, current_height) ==
    utxo.is_stake /\ utxo.locked_until >= current_height

\* line 244
IsLockedStake(utxo, current_height) ==
    utxo.is_stake /\ utxo.locked_until > current_height

RECURSIVE CheckInputs(_, _, _)
\* lines 231-255: existence, stake lock and uniqueness, input by input
CheckInputs(b, inputs, known_inputs) ==
    IF inputs = <<>> THEN "Ok"
    ELSE With(Head(inputs).prev_transaction_output_hash, LAMBDA key :
         IF key \notin DOMAIN b.utxos THEN "InvalidTransaction"
         ELSE IF IsLockedStake(b.utxos[key].output, block_height(b))
         THEN "StakeLocked"
         ELSE IF key \in known_inputs THEN "InvalidTransaction"
         ELSE With(known_inputs \cup {key}, LAMBDA known :
                  CheckInputs(b, Tail(inputs), known)))

\* lines 265-274: the first mempool entry one of whose OUTPUTS has this hash
ReferencingTransaction(mempool, key) ==
    With({i \in DOMAIN mempool :
             \E o \in SeqToSet(mempool[i].transaction.outputs) : Hash(o) = key},
         LAMBDA found :
             IF found = {} THEN 0 ELSE CHOOSE i \in found : \A j \in found : i <= j)

RECURSIVE Supersede(_, _)
\* lines 261-299
Supersede(b, inputs) ==
    IF inputs = <<>> THEN b
    ELSE With(Head(inputs).prev_transaction_output_hash, LAMBDA key :
         With(ReferencingTransaction(b.mempool, key), LAMBDA idx :
            IF ~b.utxos[key].marked THEN Supersede(b, Tail(inputs))
            ELSE IF idx # 0
            THEN With([b EXCEPT
                          !.utxos = SetAllMarked(@, b.mempool[idx].transaction.inputs,
                                                 FALSE),
                          !.mempool = RemoveAt(@, idx)],
                      LAMBDA replaced : Supersede(replaced, Tail(inputs)))
            ELSE With([b EXCEPT !.utxos = SetMarked(@, key, FALSE)],
                      LAMBDA unmarked : Supersede(unmarked, Tail(inputs)))))

\* lines 302-312 and 334-344: the values of the referenced outputs, summed;
\* a reference that is not in the index ends the call ("BUG: impossible")
InputsValue(b, transaction) ==
    With(transaction.inputs, LAMBDA ins :
        IF \E i \in DOMAIN ins :
               ins[i].prev_transaction_output_hash \notin DOMAIN b.utxos
        THEN PANIC
        ELSE SumValues([i \in DOMAIN ins |->
                           b.utxos[ins[i].prev_transaction_output_hash].output]))

\* lines 333-350: the sort key
MinerFee(b, transaction) ==
    Sub64(InputsValue(b, transaction), SumValues(transaction.outputs))

RECURSIVE InsertSorted(_, _)
InsertSorted(sorted, e) ==
    With(sorted, LAMBDA s :
        IF s = <<>> THEN <<e>>
        ELSE IF Last(s).key <= e.key THEN Append(s, e)
        ELSE Append(InsertSorted(SubSeq(s, 1, Len(s) - 1), e), Last(s)))

RECURSIVE SortByKey(_)
\* Vec::sort_by_key on [key, entry] pairs: stable, ascending in the key
SortByKey(s) ==
    With(s, LAMBDA t :
        IF t = <<>> THEN <<>>
        ELSE InsertSorted(SortByKey(SubSeq(t, 1, Len(t) - 1)), Last(t)))

\* lines 320-352: mark, push, sort
Admit(b, transaction, now) ==
    With([b EXCEPT
             !.utxos = SetAllMarked(@, transaction.inputs, TRUE),
             !.mempool = Append(@, [timestamp |-> now, transaction |-> transaction])],
         LAMBDA pushed :
    With([i \in DOMAIN pushed.mempool |->
             [key |-> MinerFee(pushed, pushed.mempool[i].transaction),
              entry |-> pushed.mempool[i]]],
         LAMBDA keyed :
        IF Len(keyed) >= 2 /\ \E i \in DOMAIN keyed : keyed[i].key = PANIC
        THEN [bc |-> pushed, res |-> "Panic"]
        ELSE With(SortByKey(keyed), LAMBDA sorted :
                 [bc |-> [pushed EXCEPT
                             !.mempool = [i \in DOMAIN sorted |-> sorted[i].entry]],
                  res |-> "Ok"])))

add_to_mempool(b, transaction, now) ==
    With(CheckInputs(b, transaction.inputs, {}), LAMBDA checked :
    IF checked # "Ok" THEN [bc |-> b, res |-> checked] ELSE
    With(Supersede(b, transaction.inputs), LAMBDA b1 :
    With(InputsValue(b1, transaction), LAMBDA all_inputs :
    With(SumValues(transaction.outputs), LAMBDA all_outputs :
        IF all_inputs = PANIC \/ all_outputs = PANIC
        THEN [bc |-> b1, res |-> "Panic"]
        ELSE IF all_inputs < all_outputs
        THEN [bc |-> b1, res |-> "InvalidTransaction"]
        ELSE Admit(b1, transaction, now)))))

MAX_MEMPOOL_TRANSACTION_AGE == 600

\* timestamps are counted in ticks of TickSeconds seconds
Expired(e, now) == (now - e.timestamp) * TickSeconds > MAX_MEMPOOL_TRANSACTION_AGE

\* the sweep without its unmarking
clean_mempool_StillMarked(b, now) ==
    [b EXCEPT !.mempool = SelectSeq(@, LAMBDA e : ~Expired(e, now))]

clean_mempool(b, now) ==
    With(SelectSeq(b.mempool, LAMBDA e : Expired(e, now)), LAMBDA gone :
    With(Concat([i \in DOMAIN gone |-> gone[i].transaction.inputs]),
         LAMBDA utxo_hashes_to_unmark :
        [b EXCEPT !.mempool = SelectSeq(@, LAMBDA e : ~Expired(e, now)),
                  !.utxos = SetAllMarked(@, utxo_hashes_to_unmark, FALSE)]))

(***************************************************************************)
(* BlockProposer::is_our_turn and build_block                              *)
(***************************************************************************)
is_our_turn(b, public_key) ==
    /\ ~LotteryPanics(b)
    /\ get_next_validator(b, TipHash(b)) = public_key

Take(s, n) == SubSeq(s, 1, IF Len(s) < n THEN Len(s) ELSE n)

\* lines 109-131: a mempool transaction is kept when every input resolves
\* and its inputs cover its outputs
Spendable(b, transaction) ==
    /\ \A i \in DOMAIN transaction.inputs :
           transaction.inputs[i].prev_transaction_output_hash \in DOMAIN b.utxos
    /\ InputsValue(b, transaction) >= SumValues(transaction.outputs)

RECURSIVE FeesOf(_, _)
FeesOf(b, transactions) ==
    With(transactions, LAMBDA txs :
        IF txs = <<>> THEN 0
        ELSE Add64(FeesOf(b, SubSeq(txs, 1, Len(txs) - 1)),
                   Sub64(InputsValue(b, Last(txs)), SumValues(Last(txs).outputs))))

\* a Uuid::new_v4: an identifier no output of the engine carries
OutputsOfTxs(transactions) ==
    UNION {SeqToSet(t.outputs) : t \in SeqToSet(transactions)}

KnownOutputs(b) ==
    {b.utxos[k].output : k \in DOMAIN b.utxos}
    \cup UNION {OutputsOfTxs(blk.transactions) : blk \in SeqToSet(b.blocks)}
    \cup OutputsOfTxs([i \in DOMAIN b.mempool |-> b.mempool[i].transaction])
    \cup UNION {OutputsOfTxs(blk.transactions) :
                   blk \in UNION {SeqToSet(b.orphan_children[k]) :
                                     k \in DOMAIN b.orphan_children}}

FreshId(b) ==
    With({o.unique_id : o \in KnownOutputs(b)}, LAMBDA ids :
        IF ids = {} THEN 1 ELSE 1 + CHOOSE n \in ids : \A m \in ids : m <= n)

\* the block, signed by the holder of private_key
SignedBlock(timestamp, prev_hash, transactions, validator, private_key) ==
    With(BlockHeader(timestamp, prev_hash, MerkleRoot(transactions), validator),
         LAMBDA header : Block(header, transactions, Sign(Hash(header), private_key)))

\* lines 92-165: [err, block]
build_block(b, public_key, now) ==
    IF ~is_our_turn(b, public_key) THEN [err |-> "NotOurTurn", block |-> <<>>] ELSE
    With([i \in DOMAIN Take(b.mempool, BLOCK_TRANSACTION_CAP) |->
             b.mempool[i].transaction], LAMBDA mempool_txs :
    With(\E i \in DOMAIN mempool_txs :
             \/ /\ InputsValue(b, mempool_txs[i]) = PANIC
                /\ \A j \in DOMAIN mempool_txs[i].inputs :
                       mempool_txs[i].inputs[j].prev_transaction_output_hash
                           \in DOMAIN b.utxos
             \/ SumValues(mempool_txs[i].outputs) = PANIC, LAMBDA sums_panic :
    With(SelectSeq(mempool_txs, LAMBDA t : Spendable(b, t)), LAMBDA valid_transactions :
    With(FeesOf(b, valid_transactions), LAMBDA validator_fees :
        IF sums_panic \/ validator_fees = PANIC THEN [err |-> "Panic", block |-> <<>>]
        ELSE With(Tx(<<>>, <<Output(FreshId(b), validator_fees, public_key, FALSE, 0)>>),
                  LAMBDA coinbase :
             [err |-> "Ok",
              block |-> SignedBlock(now, TipHash(b), <<coinbase>> \o valid_transactions,
                                    public_key, public_key)])))))

(***************************************************************************)
(* What the environment can send.  The genesis block is the one of         *)
(* create_genesis_block; wallets hold transactions that spend its          *)
(* outputs; peers hold the validators' keys and craft blocks on the tip.   *)
(***************************************************************************)
SpendableA == Output(1, TOTAL_SUPPLY_CAP \div 2, Alice, FALSE, 0)
StakeA == Output(2, STAKE_MINIMUM_AMOUNT, Alice, TRUE, GENESIS_LOCKED_UNTIL)
SpendableB == Output(3, TOTAL_SUPPLY_CAP \div 2, Bob, FALSE, 0)
StakeB == Output(4, STAKE_MINIMUM_AMOUNT, Bob, TRUE, GENESIS_LOCKED_UNTIL)

create_genesis_block(timestamp) ==
    SignedBlock(timestamp, ZeroHash,
                <<Tx(<<>>, <<SpendableA, StakeA, SpendableB, StakeB>>)>>,
                Alice, Alice)

\* Alice pays Bob, fee 10
TxPay ==
    Tx(<<Input(SpendableA, Alice)>>,
       <<Output(11, (TOTAL_SUPPLY_CAP \div 2) - 10, Bob, FALSE, 0)>>)
\* Alice pays Bob again out of the same output, fee 20
TxRepay ==
    Tx(<<Input(SpendableA, Alice)>>,
       <<Output(12, (TOTAL_SUPPLY_CAP \div 2) - 20, Bob, FALSE, 0)>>)
\* Bob's output spent under a signature that is not Bob's
TxForged ==
    Tx(<<Input(SpendableB, Alice)>>,
       <<Output(13, TOTAL_SUPPLY_CAP \div 2, Alice, FALSE, 0)>>)

WalletTxs == {TxPay, TxRepay, TxForged}

\* the key the validator binary was started with
ProposerKey == Alice

\* (INITIAL_REWARD * 10^8) >> halvings, in coins: exact while halvings <= 1
calculate_block_reward(b) ==
    INITIAL_REWARD \div (2 ^ (block_height(b) \div HALVING_INTERVAL))

\* a peer's coinbase for the block at a height: it pays the fees, or the
\* fees and the block reward
PeerCoinbase(height, validator, value) ==
    Tx(<<>>, <<Output(20 + height, value, validator, FALSE, 0)>>)

TipTime(b) == IF b.blocks = <<>> THEN 0 ELSE Last(b.blocks).header.timestamp

\* blocks a peer builds on the tip of b, each named validator signing its
\* own: an empty block, one that confirms TxPay, one whose timestamp is the
\* tip's, one whose coinbase adds the block reward to the fees
BlocksOnTip(b) ==
    With(block_height(b), LAMBDA h : With(TipHash(b), LAMBDA tip :
    With(TipTime(b), LAMBDA time : With(MinerFee(b, TxPay), LAMBDA fee :
        UNION {
            {SignedBlock(time + 1, tip, <<PeerCoinbase(h, v, 0)>>, v, v),
             SignedBlock(time, tip, <<PeerCoinbase(h, v, 0)>>, v, v),
             SignedBlock(time + 1, tip,
                         <<PeerCoinbase(h, v, calculate_block_reward(b))>>, v, v)}
            \cup (IF fee = PANIC THEN {}
                  ELSE {SignedBlock(time + 1, tip,
                                    <<PeerCoinbase(h, v, fee), TxPay>>, v, v)})
            : v \in Keys}))))

\* blocks that arrive before their parent: children of a block the tip
\* would accept, and the tip block sent once more
OrphanCount(b) ==
    SetSum(DOMAIN b.orphan_children,
           [k \in DOMAIN b.orphan_children |-> Len(b.orphan_children[k])])

BlocksAhead(b) ==
    IF b.blocks = <<>> THEN {}
    ELSE UNION {{SignedBlock(parent.header.timestamp + 1, Hash(parent),
                             <<PeerCoinbase(block_height(b) + 1, v, 0)>>, v, v) :
                    v \in Keys} :
                parent \in {c \in BlocksOnTip(b) : CheckBlock(b, c) = "Ok"}}
         \cup {Last(b.blocks)}

InTime(block) == block.header.timestamp <= MaxTime

\* what a block producer submits: a block on the tip with a fresh timestamp
\* whose coinbase pays the fees
TemplateBlocks(b) ==
    With(TipTime(b), LAMBDA time :
        {blk \in BlocksOnTip(b) :
            /\ InTime(blk)
            /\ blk.header.timestamp > time
            /\ verify_coinbase_transaction(blk, b.utxos) = "Ok"})

PeerBlocks(b) ==
    {blk \in BlocksOnTip(b) : InTime(blk)}
    \cup (IF OrphanCount(b) < MaxOrphans
          THEN {blk \in BlocksAhead(b) : InTime(blk)} ELSE {})

\* the block an honest producer appends to b: proposed by the lottery's winner
HonestBlock(b) ==
    With(get_next_validator(b, TipHash(b)), LAMBDA winner :
        SignedBlock(TipTime(b) + 1, TipHash(b),
                    <<PeerCoinbase(block_height(b), winner, 0)>>, winner, winner))

\* proposer.rs 59-69, n times over
RECURSIVE Grow(_, _)
Grow(b, n) ==
    IF n = 0 THEN b
    ELSE With(rebuild_utxos(add_block(b, HonestBlock(b)).bc),
              LAMBDA grown : Grow(grown, n - 1))

\* the chain of a network of honest validators that started from the genesis
\* block: one block per unit of time
PeerChain ==
    With(rebuild_utxos(add_block(NewBlockchain, create_genesis_block(0)).bc),
         LAMBDA seeded : Grow(seeded, MaxTime).blocks)

\* the blocks of that chain, handed to the engine in any order
EngineBlocks(b) ==
    With(TipHash(b), LAMBDA tip : With(OrphanCount(b), LAMBDA parked :
        {blk \in SeqToSet(PeerChain) :
            blk.header.prev_block_hash = tip \/ parked < MaxOrphans}))

(***************************************************************************)
(* The running process: boot, the peer handler's messages, the periodic    *)
(* mempool sweep, the clock, and the validator's proposer.                 *)
(***************************************************************************)
NoProposal == <<>>
SyncOff == [pc |-> "off"]

Init ==
    /\ overflow_checks \in BOOLEAN
    /\ bc = NewBlockchain
    /\ last = [op |-> "new"]
    /\ proposal = NoProposal
    /\ role = "boot"
    /\ clock = 0
    /\ sync = SyncOff
    /\ conn = "none"
    /\ disk = <<>>

\* node/src/main.rs 51-57: the seed node appends the genesis block
BootSeedNode ==
    /\ role = "boot"
    /\ disk = <<>>
    /\ \E r \in {add_block(bc, create_genesis_block(clock))} :
          /\ bc' = r.bc
          /\ last' = [op |-> "genesis", res |-> r.res, h0 |-> block_height(bc),
                      block |-> create_genesis_block(clock)]
    /\ role' = "node"
    /\ UNCHANGED <<conn, disk, overflow_checks, proposal, clock, sync>>

\* validator/src/main.rs 71-79: the seed validator appends it and rebuilds
BootSeedValidator ==
    /\ role = "boot"
    /\ disk = <<>>
    /\ \E r \in {add_block(bc, create_genesis_block(clock))} :
          /\ bc' = rebuild_utxos(r.bc)
          /\ last' = [op |-> "genesis", res |-> r.res, h0 |-> block_height(bc),
                      block |-> create_genesis_block(clock)]
    /\ role' = "validator"
    /\ UNCHANGED <<conn, disk, overflow_checks, proposal, clock, sync>>

\* blockchain.rs 55-64: an engine constructed empty and driven directly
StartEngine ==
    /\ role = "boot"
    /\ role' = "engine"
    /\ last' = [op |-> "new"]
    /\ UNCHANGED <<conn, disk, overflow_checks, bc, proposal, clock, sync>>

\* blockchain.rs 65-126
AddBlock(block) ==
    /\ role = "engine"
    /\ \E r \in {add_block(bc, block)} :
          /\ bc' = r.bc
          /\ last' = [op |-> "add_block", res |-> r.res, h0 |-> block_height(bc),
                      block |-> block]
    /\ UNCHANGED <<conn, disk, overflow_checks, proposal, role, clock, sync>>

\* handler.rs 61-67
NewBlock(block) ==
    /\ role \in {"node", "validator"}
    /\ \E r \in {add_block(bc, block)} :
          /\ bc' = r.bc
          /\ last' = [op |-> "NewBlock", res |-> r.res, h0 |-> block_height(bc),
                      block |-> block]
    /\ UNCHANGED <<conn, disk, overflow_checks, proposal, role, clock, sync>>

\* handler.rs 87-108
SubmitTemplate(block) ==
    /\ role \in {"node", "validator"}
    /\ \E r \in {add_block(bc, block)} :
          /\ bc' = IF r.res = "Ok" THEN rebuild_utxos(r.bc) ELSE r.bc
          /\ last' = [op |-> "SubmitTemplate", res |-> r.res, h0 |-> block_height(bc),
                      block |-> block]
    /\ UNCHANGED <<conn, disk, overflow_checks, proposal, role, clock, sync>>

\* handler.rs 109-132
SubmitTransaction(tx) ==
    /\ role \in {"node", "validator"}
    /\ Len(bc.mempool) < MaxMempool
    /\ \E r \in {add_to_mempool(bc, tx, clock)} :
          /\ bc' = r.bc
          /\ last' = [op |-> "SubmitTransaction", res |-> r.res, tx |-> tx]
    /\ UNCHANGED <<conn, disk, overflow_checks, proposal, role, clock, sync>>

\* util.rs 201-209
Cleanup ==
    /\ role \in {"node", "validator"}
    /\ \E r \in {clean_mempool(bc, clock)} :
          /\ bc' = r
          /\ last' = [op |-> "cleanup",
                      evicted |-> Len(bc.mempool) - Len(r.mempool)]
    /\ UNCHANGED <<conn, disk, overflow_checks, proposal, role, clock, sync>>

Tick ==
    /\ role \in {"node", "validator"}
    /\ clock < MaxTime
    /\ clock' = clock + 1
    /\ last' = [op |-> "tick"]
    /\ UNCHANGED <<conn, disk, overflow_checks, bc, proposal, role, sync>>

\* validator/src/main.rs 148-158 and proposer.rs 57: the slot's check, then
\* build_block under the read lock
BuildBlock ==
    /\ role = "validator"
    /\ proposal = NoProposal
    /\ is_our_turn(bc, ProposerKey)
    /\ \E built \in {build_block(bc, ProposerKey, clock)} :
          /\ built.err = "Ok"
          /\ \E r \in {add_block(bc, built.block)} :
             proposal' = [block |-> built.block,
                          \* history: what add_block answers on the state
                          \* the block was built from
                          verdict |-> r.res,
                          tipped |-> Last(r.bc.blocks) = built.block,
                          later |-> clock > TipTime(bc)]
    /\ last' = [op |-> "build_block"]
    /\ UNCHANGED <<conn, disk, overflow_checks, bc, role, clock, sync>>

\* proposer.rs 59-69: the self-append under the write lock
SelfAppend ==
    /\ proposal # NoProposal
    /\ \E r \in {add_block(bc, proposal.block)} :
          /\ bc' = IF r.res = "Ok" THEN rebuild_utxos(r.bc) ELSE r.bc
          /\ last' = [op |-> "propose_block", res |-> r.res, h0 |-> block_height(bc),
                      block |-> proposal.block]
    /\ proposal' = NoProposal
    /\ UNCHANGED <<conn, disk, overflow_checks, role, clock, sync>>

\* block intake: both seed boots and the peer handler's block messages
NextBlocks ==
    \/ BootSeedNode
    \/ BootSeedValidator
    \/ StartEngine
    \/ \E block \in EngineBlocks(bc) : AddBlock(block)
    \/ \E block \in PeerBlocks(bc) : NewBlock(block)
    \/ \E block \in TemplateBlocks(bc) : SubmitTemplate(block)
    \/ \E tx \in WalletTxs : SubmitTransaction(tx)

SpecBlocks == Init /\ [][NextBlocks]_vars

\* a validator: wallet traffic, the mempool sweep, the slot loop, and the
\* blocks other producers announce
NextPropose ==
    \/ BootSeedValidator
    \/ \E tx \in WalletTxs : SubmitTransaction(tx)
    \/ Cleanup
    \/ Tick
    \/ BuildBlock
    \/ SelfAppend
    \/ \E block \in TemplateBlocks(bc) : NewBlock(block)

SpecPropose == Init /\ [][NextPropose]_vars

(***************************************************************************)
(* A replica that boots without a snapshot and copies the chain of the     *)
(* peer that reports the longest one.                                      *)
(***************************************************************************)
\* the chain of an honest network whose first block after the genesis block
\* confirmed TxPay
PayChain ==
    With(rebuild_utxos(add_block(NewBlockchain, create_genesis_block(0)).bc),
         LAMBDA seeded :
    With(get_next_validator(seeded, TipHash(seeded)), LAMBDA winner :
    With(SignedBlock(1, TipHash(seeded),
                     <<PeerCoinbase(1, winner, MinerFee(seeded, TxPay)), TxPay>>,
                     winner, winner), LAMBDA paid :
    With(rebuild_utxos(add_block(seeded, paid).bc), LAMBDA grown :
        Grow(grown, MaxTime - 1).blocks))))

\* the chains the peers of the network hold: valid chains, of any length
PeerChains ==
    {SubSeq(PeerChain, 1, n) : n \in 1..Len(PeerChain)}
    \cup {SubSeq(PayChain, 1, n) : n \in 1..Len(PayChain)}

PeerNames == {"p1", "p2"}

\* the connection table: the peers connected to, each with the chain it serves
NodeTables == UNION {[names -> PeerChains] : names \in SUBSET PeerNames}

\* the boot finds no snapshot and turns to the network: nodes is the table of
\* connections (NODES) as it stands when the sync starts
Connect(nodes) ==
    /\ role = "boot"
    /\ role' = "joining"
    /\ sync' = [pc |-> "find", nodes |-> nodes]
    /\ last' = [op |-> "connect"]
    /\ UNCHANGED <<conn, disk, overflow_checks, bc, proposal, clock>>

\* util.rs 145-179: every peer is asked AskDifference(0); a peer replaces the
\* longest one seen when its answer is strictly greater, so among the peers
\* with the greatest answer the one the table iterates first is kept.
\* util.rs 183: the connection of the peer kept is looked up and unwrapped
find_longest_chain_node ==
    /\ sync.pc = "find"
    /\ \/ /\ DOMAIN sync.nodes = {}
          /\ sync' = [pc |-> "panicked", nodes |-> sync.nodes]
       \/ \E longest_name \in DOMAIN sync.nodes :
             /\ \A node \in DOMAIN sync.nodes :
                    Len(sync.nodes[node]) <= Len(sync.nodes[longest_name])
             /\ sync' = [pc |-> "download", nodes |-> sync.nodes,
                         node |-> longest_name,
                         count |-> Len(sync.nodes[longest_name]), i |-> 0]
    /\ last' = [op |-> "find_longest_chain_node"]
    /\ UNCHANGED <<conn, disk, overflow_checks, bc, proposal, role, clock>>

\* util.rs 184-196: one turn of the loop of download_blockchain; the error of
\* add_block ends the download, and the boot with it
FetchBlock ==
    /\ sync.pc = "download"
    /\ sync.i < sync.count
    /\ \E r \in {add_block(bc, sync.nodes[sync.node][sync.i + 1])} :
          /\ bc' = r.bc
          /\ last' = [op |-> "FetchBlock", res |-> r.res, h0 |-> block_height(bc),
                      block |-> sync.nodes[sync.node][sync.i + 1]]
          /\ sync' = IF r.res = "Ok" THEN [sync EXCEPT !.i = @ + 1]
                     ELSE [sync EXCEPT !.pc = "failed"]
    /\ UNCHANGED <<conn, disk, overflow_checks, proposal, role, clock>>

\* node/src/main.rs 62-67, validator/src/main.rs 82-86: the rebuild that
\* follows the download
FinishSync ==
    /\ sync.pc = "download"
    /\ sync.i = sync.count
    /\ bc' = rebuild_utxos(bc)
    /\ sync' = [sync EXCEPT !.pc = "done"]
    /\ role' = "validator"
    /\ last' = [op |-> "rebuild_utxos"]
    /\ UNCHANGED <<conn, disk, overflow_checks, proposal, clock>>

NextJoin ==
    \/ \E nodes \in NodeTables : Connect(nodes)
    \/ find_longest_chain_node
    \/ FetchBlock
    \/ FinishSync

SpecJoin == Init /\ [][NextJoin]_vars

(***************************************************************************)
(* Transaction-set validation on its own: Block::verify_transactions       *)
(* applied to crafted blocks over the index of a freshly booted validator. *)
(***************************************************************************)
\* Alice's output spent into two outputs whose values sum to 2^WordBits
TxMint ==
    Tx(<<Input(SpendableA, Alice)>>,
       <<Output(14, U64 \div 2, Alice, FALSE, 0), Output(15, U64 \div 2, Alice, FALSE, 0)>>)
\* Bob's output spent into one output that is worth more
TxOverdraw ==
    Tx(<<Input(SpendableB, Bob)>>,
       <<Output(16, (TOTAL_SUPPLY_CAP \div 2) + 1, Bob, FALSE, 0)>>)

VerifyTxs == WalletTxs \cup {TxMint, TxOverdraw}

VerifyTxLists ==
    {<<>>} \cup {<<t>> : t \in VerifyTxs} \cup {<<t, u>> : t, u \in VerifyTxs}

\* the coinbases tried with a list of transactions: one that pays nothing, one
\* that pays the block reward, one that pays what calculate_miner_fees finds,
\* one that has an input, one that has no output
VerifyCoinbases(b, txs) ==
    With(calculate_miner_fees([transactions |-> <<Tx(<<>>, <<>>)>> \o txs], b.utxos),
         LAMBDA miner_fees :
        {PeerCoinbase(1, Alice, 0), PeerCoinbase(1, Alice, calculate_block_reward(b)),
         Tx(<<Input(StakeA, Alice)>>, <<Output(21, 0, Alice, FALSE, 0)>>),
         Tx(<<>>, <<>>)}
        \cup (IF miner_fees.err = "Ok"
              THEN {PeerCoinbase(1, Alice, miner_fees.fees)} ELSE {}))

VerifyBlocks(b) ==
    UNION {{SignedBlock(1, TipHash(b), <<coinbase>> \o txs, Alice, Alice) :
               coinbase \in VerifyCoinbases(b, txs)} :
           txs \in VerifyTxLists}

InitVerify ==
    /\ overflow_checks \in BOOLEAN
    /\ bc = rebuild_utxos(add_block(NewBlockchain, create_genesis_block(0)).bc)
    /\ last = [op |-> "new"]
    /\ proposal = NoProposal
    /\ role = "validator"
    /\ clock = 0
    /\ sync = SyncOff
    /\ conn = "none"
    /\ disk = <<>>

\* block.rs 42-83
VerifyTransactions(block) ==
    /\ last' = [op |-> "verify_transactions",
                res |-> verify_transactions(block, bc.utxos), block |-> block]
    /\ UNCHANGED <<conn, disk, overflow_checks, bc, proposal, role, clock, sync>>

NextVerify == \E block \in VerifyBlocks(bc) : VerifyTransactions(block)

SpecVerify == InitVerify /\ [][NextVerify]_vars

\* the output hashes the inputs of a transaction name
Claimed(transaction) ==
    {transaction.inputs[i].prev_transaction_output_hash :
        i \in DOMAIN transaction.inputs}

(***************************************************************************)
(* The mempool of a seed validator under the transactions its peers relay. *)
(***************************************************************************)
\* Bob pays Alice, fee 30
TxBobPay ==
    Tx(<<Input(SpendableB, Bob)>>,
       <<Output(17, (TOTAL_SUPPLY_CAP \div 2) - 30, Alice, FALSE, 0)>>)
\* Alice withdraws her genesis stake
TxUnstake ==
    Tx(<<Input(StakeA, Alice)>>,
       <<Output(18, STAKE_MINIMUM_AMOUNT, Alice, FALSE, 0)>>)
\* one output named by two inputs, and the genesis stake after them
TxTwice ==
    Tx(<<Input(SpendableA, Alice), Input(SpendableA, Alice), Input(StakeA, Alice)>>,
       <<Output(19, STAKE_MINIMUM_AMOUNT, Bob, FALSE, 0)>>)

RelayedTxs == {TxPay, TxRepay, TxBobPay, TxUnstake, TxTwice}

\* handler.rs 68-75
NewTransaction(tx) ==
    /\ role \in {"node", "validator"}
    /\ Len(bc.mempool) < MaxRelayed
    /\ \E r \in {add_to_mempool(bc, tx, clock)} :
          /\ bc' = r.bc
          /\ last' = [op |-> "NewTransaction", res |-> r.res, tx |-> tx]
    /\ UNCHANGED <<conn, disk, overflow_checks, proposal, role, clock, sync>>

NextMempool ==
    \/ BootSeedValidator
    \/ \E tx \in RelayedTxs : NewTransaction(tx)
    \/ Cleanup
    \/ Tick

SpecMempool == Init /\ [][NextMempool]_vars

(***************************************************************************)
(* A seed validator under the blocks of SpecVerify, announced by a peer.    *)
(***************************************************************************)
\* the blocks of SpecVerify, and one whose transaction names an output twice,
\* as far as their timestamp is past the tip's
CraftedBlocks(b) ==
    With(TipTime(b), LAMBDA time :
        {blk \in VerifyBlocks(b)
                 \cup {SignedBlock(1, TipHash(b),
                                   <<PeerCoinbase(1, Alice, 0), TxTwice>>, Alice, Alice)} :
            blk.header.timestamp > time})

NextCrafted ==
    \/ BootSeedValidator
    \/ \E block \in CraftedBlocks(bc) : NewBlock(block)

SpecCrafted == Init /\ [][NextCrafted]_vars

(***************************************************************************)
(* Stakes made, withdrawn and counted: a seed validator under the blocks   *)
(* producers submit, the transactions peers relay, and the lottery.        *)
(***************************************************************************)
StakeB2 == Output(31, STAKE_MINIMUM_AMOUNT, Bob, TRUE, ShortLock)

\* Bob stakes out of his genesis output, under a lock of his choosing
TxStake ==
    Tx(<<Input(SpendableB, Bob)>>,
       <<StakeB2,
         Output(32, (TOTAL_SUPPLY_CAP \div 2) - STAKE_MINIMUM_AMOUNT, Bob, FALSE, 0)>>)
\* Bob withdraws that stake
TxWithdraw ==
    Tx(<<Input(StakeB2, Bob)>>,
       <<Output(33, STAKE_MINIMUM_AMOUNT, Bob, FALSE, 0)>>)
\* Alice's output spent into stakes for both validators; the values of the
\* outputs sum to 2^WordBits, and so do the validators' stakes afterwards
TxMintStakes ==
    Tx(<<Input(SpendableA, Alice)>>,
       <<Output(34, (U64 \div 2) - STAKE_MINIMUM_AMOUNT, Alice, TRUE,
                GENESIS_LOCKED_UNTIL),
         Output(35, (U64 \div 2) - STAKE_MINIMUM_AMOUNT, Bob, TRUE,
                GENESIS_LOCKED_UNTIL),
         Output(36, 2 * STAKE_MINIMUM_AMOUNT, Alice, FALSE, 0)>>)
\* Alice's output spent into two stakes of her own that sum to 2^WordBits
TxMintOwnStakes ==
    Tx(<<Input(SpendableA, Alice)>>,
       <<Output(37, U64 \div 2, Alice, TRUE, GENESIS_LOCKED_UNTIL),
         Output(38, U64 \div 2, Alice, TRUE, GENESIS_LOCKED_UNTIL)>>)

StakeTxs == {TxStake, TxWithdraw, TxUnstake, TxMintStakes, TxMintOwnStakes}

\* what a producer submits: a block on the tip, proposed by the lottery's
\* winner, with at most one of these transactions and a coinbase that pays
\* its fee
StakeBlocks(b) ==
    IF b.blocks = <<>> \/ LotteryPanics(b) THEN {}
    ELSE With(get_next_validator(b, TipHash(b)), LAMBDA winner :
         With(TipTime(b) + 1, LAMBDA time :
            IF winner = NoValidator \/ time > MaxTime THEN {}
            ELSE {SignedBlock(time, TipHash(b),
                              <<PeerCoinbase(block_height(b), winner, 0)>>,
                              winner, winner)}
                 \cup {SignedBlock(time, TipHash(b),
                                   <<PeerCoinbase(block_height(b), winner,
                                                  IF MinerFee(b, tx) = PANIC THEN 0
                                                  ELSE MinerFee(b, tx)), tx>>,
                                   winner, winner) :
                          tx \in {t \in StakeTxs : Claimed(t) \subseteq DOMAIN b.utxos}}))

RelayedStakeTxs == {TxWithdraw, TxUnstake}

\* the seeds the lottery is asked with: the zero hash and the hashes of the
\* blocks of the chain
LotterySeeds(b) == {ZeroHash} \cup {Hash(b.blocks[i]) : i \in DOMAIN b.blocks}

\* blockchain.rs 153-178, with the stake table it draws from
GetNextValidator(seed) ==
    /\ role \in {"node", "validator"}
    /\ ~LotteryPanics(bc)
    /\ last' = [op |-> "get_next_validator", seed |-> seed,
                stakes |-> calculate_stakes(bc),
                res |-> get_next_validator(bc, seed)]
    /\ UNCHANGED <<conn, disk, overflow_checks, bc, proposal, role, clock, sync>>

NextStake ==
    \/ BootSeedValidator
    \/ \E block \in StakeBlocks(bc) : SubmitTemplate(block)
    \/ \E tx \in RelayedStakeTxs : NewTransaction(tx)
    \/ \E seed \in LotterySeeds(bc) : GetNextValidator(seed)

SpecStake == Init /\ [][NextStake]_vars

(***************************************************************************)
(* The chain under the blocks it is offered: an engine offered its first   *)
(* block, and a seed validator offered blocks on its tip, blocks it holds  *)
(* already and blocks ahead of its tip, with transactions in its mempool.  *)
(***************************************************************************)
\* a block signed by its validator whose header names the merkle root of
\* another transaction list
MisrootedBlock(timestamp, prev_hash, transactions, validator) ==
    With(BlockHeader(timestamp, prev_hash, MerkleRoot(<<>>), validator),
         LAMBDA header : Block(header, transactions, Sign(Hash(header), validator)))

\* what an empty engine is offered as its first block: the genesis block, and
\* the same transactions under a header with another merkle root
FirstBlocks(b) ==
    IF b.blocks # <<>> THEN {}
    ELSE {create_genesis_block(0),
          MisrootedBlock(0, ZeroHash, create_genesis_block(0).transactions, Alice)}

RelayedPays == {TxPay, TxBobPay}

\* a coinbase that pays the fees of the transactions it precedes
WithCoinbase(b, height, validator, transactions) ==
    With(FeesOf(b, transactions), LAMBDA fees :
        <<PeerCoinbase(height, validator, IF fees = PANIC THEN 0 ELSE fees)>>
            \o transactions)

\* blocks of the lottery's winner on the tip of b: empty or confirming one
\* relayed payment, with a later timestamp, with the tip's timestamp, and
\* with a wrong merkle root
OfferedOnTip(b) ==
    IF b.blocks = <<>> \/ LotteryPanics(b) THEN {}
    ELSE With(get_next_validator(b, TipHash(b)), LAMBDA winner :
         With(TipTime(b), LAMBDA time : With(TipHash(b), LAMBDA tip :
            IF winner = NoValidator THEN {}
            ELSE {SignedBlock(time, tip, WithCoinbase(b, block_height(b), winner, <<>>),
                              winner, winner)}
                 \cup (IF time + 1 > MaxTime THEN {}
                       ELSE {SignedBlock(time + 1, tip,
                                         WithCoinbase(b, block_height(b), winner, txs),
                                         winner, winner) :
                                txs \in {<<>>} \cup {<<t>> : t \in RelayedPays}}
                            \cup {MisrootedBlock(time + 1, tip,
                                                 WithCoinbase(b, block_height(b),
                                                              winner, <<>>),
                                                 winner)}))))

\* blocks that do not extend the tip: a block of the chain sent once more,
\* and children of the empty block the tip would accept
OfferedOffTip(b) ==
    IF b.blocks = <<>> \/ LotteryPanics(b) \/ OrphanCount(b) >= MaxOrphans THEN {}
    ELSE SeqToSet(b.blocks)
         \cup With(HonestBlock(b), LAMBDA parent :
              With(get_next_validator(b, Hash(parent)), LAMBDA winner :
                 IF winner = NoValidator \/ parent.header.timestamp + 1 > MaxTime
                 THEN {}
                 ELSE {SignedBlock(parent.header.timestamp + 1, Hash(parent),
                                   WithCoinbase(b, block_height(b) + 1, winner, txs),
                                   winner, winner) :
                          txs \in {<<>>, <<TxBobPay>>}}))

NextChain ==
    \/ StartEngine
    \/ \E block \in FirstBlocks(bc) : AddBlock(block)
    \/ BootSeedValidator
    \/ \E tx \in RelayedPays : NewTransaction(tx)
    \/ \E block \in OfferedOnTip(bc) \cup OfferedOffTip(bc) : NewBlock(block)

SpecChain == Init /\ [][NextChain]_vars

(***************************************************************************)
(* Blockchain::slash_validator, calculate_block_reward and the snapshot    *)
(* file, on a seed validator that is restarted from its snapshot.          *)
(***************************************************************************)
SLASHING_PENALTY_DOUBLE_SIGN == 1000
SLASHING_PENALTY_DOWNTIME == 100
BASIS_POINTS == 10000

\* a product of unsigned values
Mul64(a, b) ==
    With(a, LAMBDA x : With(b, LAMBDA y :
        IF y = 0 \/ x <= (U64 - 1) \div y THEN x * y
        ELSE IF overflow_checks THEN PANIC
        ELSE With(2 ^ (WordBits \div 2), LAMBDA k :
             ((((x \div k) * y) % (U64 \div k)) * k + (x % k) * y) % U64)))

\* the stake test left out: a record is pushed whatever the stake
slash_validator_Unchecked(b, pubkey, reason) ==
    [bc |-> [b EXCEPT !.slashing_history =
                        Append(@, [validator |-> pubkey,
                                   block_height |-> block_height(b),
                                   reason |-> reason, penalty_amount |-> 0])],
     res |-> "Ok", penalty |-> 0]

\* blockchain.rs 387-420: [bc, res, penalty]; the record is pushed before the
\* penalty is added to slashed_amounts
slash_validator(b, pubkey, reason) ==
    IF \E p \in Keys : HasLockedStake(b, p) /\ LockedStakeOf(b, p) = PANIC
    THEN [bc |-> b, res |-> "Panic", penalty |-> 0] ELSE
    With(calculate_stakes(b), LAMBDA stakes :
    With(IF pubkey \in DOMAIN stakes THEN stakes[pubkey] ELSE 0, LAMBDA stake :
    IF stake = 0 THEN [bc |-> b, res |-> "InvalidValidator", penalty |-> 0] ELSE
    With(IF reason = "DoubleSigning" THEN SLASHING_PENALTY_DOUBLE_SIGN
         ELSE SLASHING_PENALTY_DOWNTIME, LAMBDA penalty_rate :
    With(Mul64(stake, penalty_rate), LAMBDA product :
    IF product = PANIC THEN [bc |-> b, res |-> "Panic", penalty |-> 0] ELSE
    With(product \div BASIS_POINTS, LAMBDA penalty_amount :
    With([b EXCEPT !.slashing_history =
                     Append(@, [validator |-> pubkey,
                                block_height |-> block_height(b),
                                reason |-> reason,
                                penalty_amount |-> penalty_amount])],
         LAMBDA recorded :
    With(Add64(IF pubkey \in DOMAIN b.slashed_amounts
               THEN b.slashed_amounts[pubkey] ELSE 0, penalty_amount),
         LAMBDA slashed :
    IF slashed = PANIC THEN [bc |-> recorded, res |-> "Panic", penalty |-> 0]
    ELSE [bc |-> [recorded EXCEPT !.slashed_amounts = MapInsert(@, pubkey, slashed)],
          res |-> "Ok", penalty |-> penalty_amount])))))))

\* a caller of the library slashes a validator on the engine: the process's
\* engine, or one constructed empty
SlashValidator(pubkey, reason) ==
    /\ role \in {"node", "validator", "engine"}
    /\ Len(bc.slashing_history) < MaxSlashes
    /\ \E r \in {slash_validator(bc, pubkey, reason)} :
          /\ bc' = r.bc
          /\ last' = [op |-> "slash_validator", res |-> r.res, pubkey |-> pubkey,
                      reason |-> reason, penalty |-> r.penalty]
    /\ UNCHANGED <<conn, disk, overflow_checks, proposal, role, clock, sync>>

\* an amount [coins, units] (coins * 10^8 + units being its value) shifted
\* right by n bits, four bits at a time
RECURSIVE ShiftRight(_, _)
ShiftRight(amount, n) ==
    IF n = 0 THEN amount
    ELSE With(IF n > 4 THEN 4 ELSE n, LAMBDA s :
         With([coins |-> amount.coins \div (2 ^ s),
               units |-> ((amount.coins % (2 ^ s)) * (10 ^ 8) + amount.units)
                             \div (2 ^ s)],
              LAMBDA shifted : ShiftRight(shifted, n - s)))

\* lines 380-382 for a chain of `height` blocks, in full width: [err, coins,
\* units].  The shift amount of a u64 is taken modulo 64 where overflow is
\* not checked
block_reward(height) ==
    With(height \div HALVING_INTERVAL, LAMBDA halvings :
        IF halvings >= 64 /\ overflow_checks
        THEN [err |-> "Panic", coins |-> 0, units |-> 0]
        ELSE With(ShiftRight([coins |-> INITIAL_REWARD, units |-> 0], halvings % 64),
                  LAMBDA shifted :
                      [err |-> "Ok", coins |-> shifted.coins, units |-> shifted.units]))

\* blockchain.rs 379-383 on an engine whose chain holds `height` blocks, for
\* any height up to MaxHeight; the function reads nothing of the engine but
\* the height
CalculateBlockReward ==
    /\ role = "boot"
    /\ last = [op |-> "new"]
    /\ \E height \in 0..MaxHeight :
          last' = [op |-> "calculate_block_reward", height |-> height,
                   res |-> block_reward(height)]
    /\ UNCHANGED <<conn, disk, overflow_checks, bc, proposal, role, clock, sync>>

\* Bob locks nine more minimum stakes out of his genesis output
TxStakeMore ==
    Tx(<<Input(SpendableB, Bob)>>,
       <<Output(41, 9 * STAKE_MINIMUM_AMOUNT, Bob, TRUE, GENESIS_LOCKED_UNTIL),
         Output(42, (TOTAL_SUPPLY_CAP \div 2) - 9 * STAKE_MINIMUM_AMOUNT, Bob,
                FALSE, 0)>>)

\* what a producer submits: a block of the lottery's winner on the tip, empty
\* or with one stake transaction
LedgerBlocks(b) ==
    IF b.blocks = <<>> \/ LotteryPanics(b) THEN {}
    ELSE With(get_next_validator(b, TipHash(b)), LAMBDA winner :
         With(TipTime(b) + 1, LAMBDA time :
            IF winner = NoValidator \/ time > MaxTime THEN {}
            ELSE {SignedBlock(time, TipHash(b),
                              WithCoinbase(b, block_height(b), winner, txs),
                              winner, winner) :
                     txs \in {<<>>} \cup
                             {<<t>> : t \in {u \in {TxStakeMore, TxMintStakes} :
                                                Claimed(u) \subseteq DOMAIN b.utxos}}}))

Pairs(f) == {<<k, f[k]>> : k \in DOMAIN f}
Unpaired(pairs) ==
    [k \in {p[1] : p \in pairs} |-> (CHOOSE p \in pairs : p[1] = k)[2]]

\* every field written, the skipped ones too
save_Unskipped(b) ==
    [blocks |-> b.blocks, utxos |-> Pairs(b.utxos), mempool |-> b.mempool,
     orphan_children |-> Pairs(b.orphan_children),
     slashing_history |-> b.slashing_history,
     slashed_amounts |-> Pairs(b.slashed_amounts), winners |-> b.winners]

\* blockchain.rs 17-20 under the attributes of lines 38-53: the file's
\* content, maps written as lists of pairs, mempool and orphan_children
\* skipped (and the history field, which is not the program's)
save(b) ==
    [blocks |-> b.blocks, utxos |-> Pairs(b.utxos),
     slashing_history |-> b.slashing_history,
     slashed_amounts |-> Pairs(b.slashed_amounts), winners |-> b.winners]

\* blockchain.rs 13-16: a field the file lacks takes its default
load(file) ==
    [blocks |-> file.blocks, utxos |-> Unpaired(file.utxos),
     mempool |-> IF "mempool" \in DOMAIN file THEN file.mempool ELSE <<>>,
     orphan_children |-> IF "orphan_children" \in DOMAIN file
                         THEN Unpaired(file.orphan_children) ELSE EmptyMap,
     slashing_history |-> IF "slashing_history" \in DOMAIN file
                          THEN file.slashing_history ELSE <<>>,
     slashed_amounts |-> IF "slashed_amounts" \in DOMAIN file
                         THEN Unpaired(file.slashed_amounts) ELSE EmptyMap,
     winners |-> file.winners]

\* node/src/util.rs 210-218: the periodic save
Save ==
    /\ role \in {"node", "validator"}
    /\ disk' = save(bc)
    /\ last' = [op |-> "save"]
    /\ UNCHANGED <<conn, overflow_checks, bc, proposal, role, clock, sync>>

\* the process ends and the binary is started again; the file stays
Restart ==
    /\ role \in {"node", "validator"}
    /\ disk # <<>>
    /\ bc' = NewBlockchain
    /\ role' = "boot"
    /\ proposal' = NoProposal
    /\ sync' = SyncOff
    /\ conn' = "none"
    /\ last' = [op |-> "new"]
    /\ UNCHANGED <<disk, overflow_checks, clock>>

\* node/src/util.rs 67-78, from validator/src/main.rs 65-67: the boot finds
\* the file, loads it and rebuilds the index
load_blockchain ==
    /\ role = "boot"
    /\ disk # <<>>
    /\ bc' = rebuild_utxos(load(disk))
    /\ role' = "validator"
    /\ last' = [op |-> "load_blockchain"]
    /\ UNCHANGED <<conn, disk, overflow_checks, proposal, clock, sync>>

NextLedger ==
    \/ BootSeedValidator
    \/ StartEngine
    \/ CalculateBlockReward
    \/ \E block \in LedgerBlocks(bc) : SubmitTemplate(block)
    \/ \E pubkey \in Keys, reason \in {"DoubleSigning", "Downtime"} :
          SlashValidator(pubkey, reason)

SpecLedger == Init /\ [][NextLedger]_vars

\* a seed validator with a payment in its mempool, a block in its orphan
\* cache and a slashed validator, saved, stopped and started again
NextSnapshot ==
    \/ BootSeedValidator
    \/ \E block \in {HonestBlock(bc)} : InTime(block) /\ SubmitTemplate(block)
    \/ \E block \in OfferedOffTip(bc) : NewBlock(block)
    \/ \E tx \in {TxPay} : NewTransaction(tx)
    \/ SlashValidator(Alice, "DoubleSigning")
    \/ Save
    \/ Restart
    \/ load_blockchain

SpecSnapshot == Init /\ [][NextSnapshot]_vars

(***************************************************************************)
(* One inbound connection of a seed validator and its handle_connection    *)
(* task: the messages a peer sends over it, and what the handler forwards  *)
(* to the peers of NODES.  NewBlock, NewTransaction, SubmitTemplate and    *)
(* SubmitTransaction above are the same handlers on connections that are   *)
(* not followed: they leave this one as it is.                             *)
(***************************************************************************)
\* node/src/main.rs 80-83: the listener accepts and spawns the handler
Accept ==
    /\ role \in {"node", "validator"}
    /\ conn = "none"
    /\ conn' = "open"
    /\ last' = [op |-> "accept"]
    /\ UNCHANGED <<disk, overflow_checks, bc, proposal, role, clock, sync>>

\* the connection kept whatever the answer
AfterMessage_KeptOpen(tag, res) == "open"

\* handler.rs 64-66, 71-74, 90-93, 112-115: the task returns when
\* add_to_mempool refuses a transaction and goes on when add_block refuses a
\* block; a panic unwinds the task and drops its socket
AfterMessage(tag, res) ==
    IF res = "Panic" THEN "closed"
    ELSE IF tag \in {"NewTransaction", "SubmitTransaction"} /\ res # "Ok" THEN "closed"
    ELSE "open"

\* forwarding that ends at the first send that fails
Forward_UntilFailure(tag, res, failed) ==
    IF tag \in {"SubmitTemplate", "SubmitTransaction"} /\ res = "Ok"
    THEN [message |-> IF tag = "SubmitTemplate" THEN "NewBlock" ELSE "NewTransaction",
          sends |-> IF failed = {} THEN [node \in PeerNames |-> TRUE]
                    ELSE [node \in {CHOOSE f \in failed : TRUE} |-> FALSE]]
    ELSE [message |-> "none", sends |-> EmptyMap]

\* handler.rs 94-106, 116-131: after a block or transaction that was
\* submitted and accepted, one send to every peer of NODES, those of `failed`
\* returning an error; sends[node] tells whether the send to node succeeded
Forward(tag, res, failed) ==
    IF tag \in {"SubmitTemplate", "SubmitTransaction"} /\ res = "Ok"
    THEN [message |-> IF tag = "SubmitTemplate" THEN "NewBlock" ELSE "NewTransaction",
          sends |-> [node \in PeerNames |-> node \notin failed]]
    ELSE [message |-> "none", sends |-> EmptyMap]

\* handler.rs 10-19, 61-67 and 87-108: one turn of the handler's loop on a
\* NewBlock or SubmitTemplate message
ReceiveBlock(tag, block, failed) ==
    /\ role \in {"node", "validator"}
    /\ conn = "open"
    /\ \E r \in {add_block(bc, block)} :
          /\ bc' = IF tag = "SubmitTemplate" /\ r.res = "Ok"
                   THEN rebuild_utxos(r.bc) ELSE r.bc
          /\ conn' = AfterMessage(tag, r.res)
          /\ last' = [op |-> tag, res |-> r.res, h0 |-> block_height(bc),
                      block |-> block, sent |-> Forward(tag, r.res, failed)]
    /\ UNCHANGED <<disk, overflow_checks, proposal, role, clock, sync>>

\* handler.rs 10-19, 68-75 and 109-132: one turn of the loop on a
\* NewTransaction or SubmitTransaction message
ReceiveTransaction(tag, tx, failed) ==
    /\ role \in {"node", "validator"}
    /\ conn = "open"
    /\ Len(bc.mempool) < MaxRelayed
    /\ \E r \in {add_to_mempool(bc, tx, clock)} :
          /\ bc' = r.bc
          /\ conn' = AfterMessage(tag, r.res)
          /\ last' = [op |-> tag, res |-> r.res, tx |-> tx,
                      sent |-> Forward(tag, r.res, failed)]
    /\ UNCHANGED <<disk, overflow_checks, proposal, role, clock, sync>>

NextGossip ==
    \/ BootSeedValidator
    \/ Accept
    \/ \E tag \in {"NewBlock", "SubmitTemplate"}, block \in OfferedOnTip(bc),
          failed \in SUBSET PeerNames : ReceiveBlock(tag, block, failed)
    \/ \E tag \in {"NewTransaction", "SubmitTransaction"}, tx \in {TxPay, TxUnstake},
          failed \in SUBSET PeerNames : ReceiveTransaction(tag, tx, failed)

SpecGossip == Init /\ [][NextGossip]_vars

(***************************************************************************)
(* The order of add_block's checks: a seed validator offered blocks on its *)
(* tip that fail any combination of them.                                  *)
(***************************************************************************)
\* a block whose header fields, transactions and signer are chosen freely
ForgedBlock(timestamp, prev_hash, merkle_root, validator, transactions, private_key) ==
    With(BlockHeader(timestamp, prev_hash, merkle_root, validator),
         LAMBDA header : Block(header, transactions, Sign(Hash(header), private_key)))

\* blocks on the tip of b: proposed by either validator, signed with either
\* key, under the merkle root of its transactions or of none, stamped with
\* the tip's time or a later one, with a coinbase that pays the fees (none)
\* or one coin more
FaultyBlocks(b) ==
    IF b.blocks = <<>> THEN {}
    ELSE With(TipTime(b), LAMBDA time : With(TipHash(b), LAMBDA tip :
         With(block_height(b), LAMBDA h :
            {ForgedBlock(time + later, tip,
                         MerkleRoot(IF rooted THEN <<PeerCoinbase(h, v, extra)>>
                                    ELSE <<>>),
                         v, <<PeerCoinbase(h, v, extra)>>, k) :
                later \in {d \in {0, 1} : time + d <= MaxTime},
                rooted \in BOOLEAN, v \in Keys, k \in Keys, extra \in {0, 1}})))

NextOrder ==
    \/ BootSeedValidator
    \/ \E block \in FaultyBlocks(bc) : NewBlock(block)

SpecOrder == Init /\ [][NextOrder]_vars

(***************************************************************************)
(* The mempool and the index of a seed validator under relayed             *)
(* transactions, the sweep and the blocks producers submit.                *)
(***************************************************************************)
\* payments of both wallets, two of them spending the same output, and a
\* transaction that pays out more than the output it spends holds
PoolTxs == {TxPay, TxRepay, TxBobPay, TxOverdraw}

NextPool ==
    \/ BootSeedValidator
    \/ \E tx \in PoolTxs : NewTransaction(tx)
    \/ Cleanup
    \/ Tick
    \/ \E block \in TemplateBlocks(bc) : SubmitTemplate(block)

SpecPool == Init /\ [][NextPool]_vars

(***************************************************************************)
(* Blockchain::get_effective_stake, read on a seed validator whose         *)
(* validators stake and are slashed.                                       *)
(***************************************************************************)
\* blockchain.rs 430-435
get_effective_stake(b, pubkey) ==
    IF \E p \in Keys : HasLockedStake(b, p) /\ LockedStakeOf(b, p) = PANIC
    THEN PANIC ELSE
    With(calculate_stakes(b), LAMBDA stakes :
    With(IF pubkey \in DOMAIN stakes THEN stakes[pubkey] ELSE 0, LAMBDA stake :
    With(IF pubkey \in DOMAIN b.slashed_amounts THEN b.slashed_amounts[pubkey] ELSE 0,
         LAMBDA slashed : SaturatingSub(stake, slashed))))

\* a caller of the library reads the effective stake of a validator
GetEffectiveStake(pubkey) ==
    /\ role \in {"node", "validator"}
    /\ last' = [op |-> "get_effective_stake", pubkey |-> pubkey,
                res |-> get_effective_stake(bc, pubkey)]
    /\ UNCHANGED <<conn, disk, overflow_checks, bc, proposal, role, clock, sync>>

NextEffective ==
    \/ BootSeedValidator
    \/ \E block \in LedgerBlocks(bc) : SubmitTemplate(block)
    \/ \E pubkey \in Keys, reason \in {"DoubleSigning", "Downtime"} :
          SlashValidator(pubkey, reason)
    \/ \E pubkey \in Keys : GetEffectiveStake(pubkey)

SpecEffective == Init /\ [][NextEffective]_vars

(***************************************************************************)
(* The orphan drain of a seed validator whose peers announce the next      *)
(* block, two children of it and a grandchild, in any order.               *)
(***************************************************************************)
MaxParked == 3

\* the block the lottery's winner builds on a parent at the parent's time + 1
ChildOf(b, parent, height, transactions) ==
    With(get_next_validator(b, Hash(parent)), LAMBDA winner :
        SignedBlock(parent.header.timestamp + 1, Hash(parent),
                    WithCoinbase(b, height, winner, transactions), winner, winner))

\* the honest block on the tip, its children (one empty, one confirming
\* TxBobPay, one with a wrong merkle root), the child of the first of them,
\* and the tip block once more; a block that does not extend the tip while
\* fewer than MaxParked are parked
DrainBlocks(b) ==
    IF b.blocks = <<>> \/ LotteryPanics(b) \/ TipTime(b) >= MaxTime THEN {}
    ELSE With(HonestBlock(b), LAMBDA parent :
         With(ChildOf(b, parent, block_height(b) + 1, <<>>), LAMBDA child :
            {parent}
            \cup (IF OrphanCount(b) >= MaxParked THEN {}
                  ELSE {child,
                        ChildOf(b, parent, block_height(b) + 1, <<TxBobPay>>),
                        MisrootedBlock(child.header.timestamp, Hash(parent),
                                       child.transactions, child.header.validator),
                        ChildOf(b, child, block_height(b) + 2, <<>>),
                        Last(b.blocks)})))

NextDrain ==
    \/ BootSeedValidator
    \/ \E block \in DrainBlocks(bc) : NewBlock(block)

SpecDrain == Init /\ [][NextDrain]_vars

(***************************************************************************)
(* Claims                                                                  *)
(***************************************************************************)
\* the blocks of the chain from position `from` on were each proposed by the
\* validator the lottery named on the state just before the append
ElectedFrom(from) ==
    \A i \in from..Len(bc.blocks) :
        /\ bc.winners[i] # NoValidator
        /\ bc.blocks[i].header.validator = bc.winners[i]

\* C1 as stated: every block of the chain, the first included, was proposed by
\* the validator get_next_validator named for its prev_block_hash on the state
\* immediately before the append
C1_EveryBlockElected == ElectedFrom(1)

\* C1, amended: every block appended to a non-empty chain (directly or from the
\* orphan cache) was proposed by the validator get_next_validator named for its
\* prev_block_hash on the state immediately before the append, and was not
\* appended when the lottery named none
C1_LaterBlocksElected == ElectedFrom(2)

\* a chain of three blocks whose last block was parked first and appended by
\* the drain that followed its parent
C1_Witness ==
    /\ Len(bc.blocks) = 3
    /\ last.op = "NewBlock"
    /\ last.res = "Ok"
    /\ last.h0 = 1
    /\ last.block = bc.blocks[2]

\* the confirmed transactions in chain order
ChainTransactions(blocks) == Concat([i \in 1..Len(blocks) |-> blocks[i].transactions])

InputKeys(transaction) ==
    {transaction.inputs[i].prev_transaction_output_hash : i \in 1..Len(transaction.inputs)}

OutputKeys(transaction) ==
    {Hash(transaction.outputs[i]) : i \in 1..Len(transaction.outputs)}

\* walking the transactions in order, every input names an output that an
\* earlier transaction created and that nothing has spent since
RECURSIVE SpendsUnspent(_, _)
SpendsUnspent(transactions, unspent) ==
    IF transactions = <<>> THEN TRUE
    ELSE With(Head(transactions), LAMBDA transaction :
            /\ InputKeys(transaction) \subseteq unspent
            /\ Cardinality(InputKeys(transaction)) = Len(transaction.inputs)
            /\ With((unspent \ InputKeys(transaction)) \cup OutputKeys(transaction),
                    LAMBDA left : SpendsUnspent(Tail(transactions), left)))

\* C2: in every reachable chain no output is spent twice, and every input of a
\* confirmed transaction references an output created earlier in the chain and
\* still unspent at that point
C2_NoDoubleSpend == SpendsUnspent(ChainTransactions(bc.blocks), {})

\* the list parked under a parent's hash
ParkedUnder(b, parent) ==
    IF parent \in DOMAIN b.orphan_children THEN b.orphan_children[parent] ELSE <<>>

\* C3: a call of add_block whose block does not name the tip as its parent (or
\* names any parent at all while the chain is empty) returns success, appends
\* the block to the orphan list kept under its prev_block_hash, and leaves the
\* chain, the UTXO index and the mempool unchanged
C3_OrphanParked ==
    [][(/\ last'.op \in {"add_block", "NewBlock"}
        /\ last'.block.header.prev_block_hash # TipHash(bc))
       => (/\ last'.res = "Ok"
           /\ bc'.blocks = bc.blocks
           /\ bc'.utxos = bc.utxos
           /\ bc'.mempool = bc.mempool
           /\ bc'.orphan_children =
                  MapInsert(bc.orphan_children, last'.block.header.prev_block_hash,
                            Append(ParkedUnder(bc, last'.block.header.prev_block_hash),
                                   last'.block)))]_vars

\* a block was just parked on a replica whose chain and mempool are not empty
C3_Witness ==
    /\ last.op = "NewBlock"
    /\ last.res = "Ok"
    /\ last.h0 = Len(bc.blocks)
    /\ bc.mempool # <<>>
    /\ last.block.header.prev_block_hash # TipHash(bc)
    /\ ParkedUnder(bc, last.block.header.prev_block_hash) = <<last.block>>

\* the orphan cache of an empty engine that was handed the blocks n, n-1, ..., 2
\* of the peer chain
ParkedInReverse(n) ==
    [k \in {Hash(PeerChain[i]) : i \in 1..(n - 1)} |->
        <<PeerChain[CHOOSE i \in 2..n : PeerChain[i].header.prev_block_hash = k]>>]

\* C4: when the valid blocks B1..Bn, each extending the previous, are handed to
\* an empty engine in reverse order, the call for B1 leaves the chain equal to
\* B1..Bn and the orphan cache without any of them
C4_ReverseOrderDrains ==
    [][\A n \in 2..Len(PeerChain) :
          (/\ bc.blocks = <<>>
           /\ bc.orphan_children = ParkedInReverse(n)
           /\ last'.op = "add_block"
           /\ last'.block = PeerChain[1])
          => (/\ bc'.blocks = SubSeq(PeerChain, 1, n)
              /\ bc'.orphan_children = EmptyMap)]_vars

\* the hashes of the outputs that a confirmed transaction created and no
\* confirmed transaction after it references
UnspentKeys(blocks) ==
    With(ChainTransactions(blocks), LAMBDA txs :
        {k \in UNION {OutputKeys(txs[p]) : p \in DOMAIN txs} :
            \E p \in DOMAIN txs :
                /\ k \in OutputKeys(txs[p])
                /\ \A q \in (p + 1)..Len(txs) : k \notin InputKeys(txs[q])})

\* the index holds exactly the unspent outputs of the chain, each under its hash
ExactIndex(utxos, blocks) ==
    /\ DOMAIN utxos = UnspentKeys(blocks)
    /\ \A k \in DOMAIN utxos : Hash(utxos[k].output) = k

\* C5: after rebuild_utxos the key set of the UTXO index is exactly the set of
\* hashes of the outputs of confirmed transactions that no later confirmed input
\* references, and every entry maps its key to that output, whatever index the
\* replica held before the rebuild
C5_RebuildExact ==
    /\ ExactIndex(rebuild_utxos(bc).utxos, bc.blocks)
    /\ (/\ last.op \in {"SubmitTemplate", "propose_block"}
        /\ last.res = "Ok") => ExactIndex(bc.utxos, bc.blocks)
    /\ (last.op = "genesis" /\ role = "validator") => ExactIndex(bc.utxos, bc.blocks)

\* a rebuild that followed the append of a third block, on an index so stale
\* that the second and the third block could both confirm TxPay
C5_Witness ==
    /\ last.op = "SubmitTemplate"
    /\ last.res = "Ok"
    /\ Len(bc.blocks) = 3
    /\ bc.blocks[2].transactions[Len(bc.blocks[2].transactions)] = TxPay
    /\ bc.blocks[3].transactions[Len(bc.blocks[3].transactions)] = TxPay
    /\ Hash(SpendableA) \notin DOMAIN bc.utxos

\* the confirmed output a key names, in the chain up to a block
OutputByKey(blocks, key) ==
    CHOOSE o \in OutputsOfTxs(ChainTransactions(blocks)) : Hash(o) = key

\* the fees of the block at a position of the chain: what the inputs of its
\* transactions after the coinbase hold beyond what their outputs pay
FeesAt(blocks, i) ==
    With(Tail(blocks[i].transactions), LAMBDA paid :
        SetSum(DOMAIN paid,
               [t \in DOMAIN paid |->
                   SetSum(DOMAIN paid[t].inputs,
                          [j \in DOMAIN paid[t].inputs |->
                              OutputByKey(SubSeq(blocks, 1, i - 1),
                                          paid[t].inputs[j].prev_transaction_output_hash).value])
                   - SetSum(DOMAIN paid[t].outputs,
                            [j \in DOMAIN paid[t].outputs |-> paid[t].outputs[j].value])]))

CoinbaseTotal(block) ==
    SetSum(DOMAIN block.transactions[1].outputs,
           [j \in DOMAIN block.transactions[1].outputs |->
               block.transactions[1].outputs[j].value])

\* the reward of the block built at a height
RewardAt(height) == INITIAL_REWARD \div (2 ^ (height \div HALVING_INTERVAL))

\* C8: the coinbase of every block of the chain after the genesis block pays
\* the block reward of its height plus the fees of the block's transactions
C8_CoinbasePaysRewardAndFees ==
    \A i \in 2..Len(bc.blocks) :
        CoinbaseTotal(bc.blocks[i]) = RewardAt(i - 1) + FeesAt(bc.blocks, i)

\* C9: a block that build_block made on a state where the proposer is the
\* lottery's winner and the clock is past the tip's timestamp is accepted by
\* add_block on that state and becomes the tip, whatever add_to_mempool had
\* admitted to the mempool
C9_BuiltBlockAccepted ==
    (proposal # NoProposal /\ proposal.later)
        => (proposal.verdict = "Ok" /\ proposal.tipped)

\* C10: when the handler of NewBlock has appended the block, the UTXO index
\* holds none of the outputs the block's transactions consumed and all of the
\* outputs they created
C10_NewBlockRebuilds ==
    (last.op = "NewBlock" /\ last.res = "Ok" /\ Len(bc.blocks) > last.h0)
        => \A t \in DOMAIN bc.blocks[last.h0 + 1].transactions :
               /\ InputKeys(bc.blocks[last.h0 + 1].transactions[t])
                      \cap DOMAIN bc.utxos = {}
               /\ OutputKeys(bc.blocks[last.h0 + 1].transactions[t])
                      \subseteq DOMAIN bc.utxos

\* what the inputs of a transaction hold in an index, and what its outputs pay
HeldBy(utxos, transaction) ==
    SetSum(DOMAIN transaction.inputs,
           [j \in DOMAIN transaction.inputs |->
               utxos[transaction.inputs[j].prev_transaction_output_hash].output.value])

PaidBy(transaction) ==
    SetSum(DOMAIN transaction.outputs,
           [j \in DOMAIN transaction.outputs |-> transaction.outputs[j].value])

\* C7: in every block that verify_transactions accepts, the coinbase has no
\* input and at least one output, and the values of its outputs sum to exactly
\* the sum, over the transactions after it, of what the inputs hold minus what
\* the outputs pay
C7_CoinbaseEqualsFees ==
    (last.op = "verify_transactions" /\ last.res = "Ok")
        => With(last.block.transactions, LAMBDA txs :
               /\ Len(txs[1].inputs) = 0
               /\ Len(txs[1].outputs) >= 1
               /\ PaidBy(txs[1]) =
                      SetSum(2..Len(txs),
                             [t \in 2..Len(txs) |->
                                 HeldBy(bc.utxos, txs[t]) - PaidBy(txs[t])]))

\* C6: a chain sync ends, and ends with the local chain equal to the blocks
\* 0..n-1 of the peer it chose, a peer whose answer to AskDifference was the
\* greatest: it neither aborts nor stops at a block it cannot append
C6_SyncCopiesChain ==
    sync.pc \in {"done", "failed", "panicked"}
        => /\ sync.pc = "done"
           /\ bc.blocks = sync.nodes[sync.node]
           /\ \A node \in DOMAIN sync.nodes :
                  Len(sync.nodes[node]) <= Len(sync.nodes[sync.node])

Pooled(b) == {b.mempool[i].transaction : i \in DOMAIN b.mempool}

\* C11: when add_to_mempool has admitted T1 and next admits a different T2
\* that consumes an output T1 consumes, the mempool holds T2 and not T1 and
\* that output is marked
C11_Supersession ==
    [][\A tx \in RelayedTxs :
          (/\ last.op = "NewTransaction" /\ last.res = "Ok"
           /\ last.tx # tx
           /\ Claimed(last.tx) \cap Claimed(tx) # {}
           /\ NewTransaction(tx)
           /\ last'.res = "Ok")
          => /\ tx \in Pooled(bc')
             /\ last.tx \notin Pooled(bc')
             /\ \A key \in Claimed(last.tx) \cap Claimed(tx) : bc'.utxos[key].marked
      ]_vars

\* C12: no two entries of the mempool have an input that names the same
\* output hash
C12_OneClaimPerOutput ==
    \A i, j \in DOMAIN bc.mempool :
        i # j => Claimed(bc.mempool[i].transaction)
                     \cap Claimed(bc.mempool[j].transaction) = {}

\* the age of a mempool entry on the wall clock, in seconds
AgeSeconds(e) == (clock - e.timestamp) * TickSeconds

ClaimedByAll(entries) ==
    UNION {Claimed(entries[i].transaction) : i \in DOMAIN entries}

\* C13: clean_mempool removes exactly the entries older than
\* MAX_MEMPOOL_TRANSACTION_AGE and keeps the others in their order; an output
\* that an evicted entry claims and no kept entry claims is unmarked
\* afterwards; an output that no evicted entry claims keeps its mark; nothing
\* else of the engine changes
C13_CleanupFrame ==
    [][Cleanup =>
          With(SelectSeq(bc.mempool,
                         LAMBDA e : AgeSeconds(e) > MAX_MEMPOOL_TRANSACTION_AGE),
               LAMBDA evicted :
          With(SelectSeq(bc.mempool,
                         LAMBDA e : AgeSeconds(e) <= MAX_MEMPOOL_TRANSACTION_AGE),
               LAMBDA kept :
              /\ bc'.mempool = kept
              /\ DOMAIN bc'.utxos = DOMAIN bc.utxos
              /\ \A key \in DOMAIN bc.utxos :
                    /\ bc'.utxos[key].output = bc.utxos[key].output
                    /\ (key \in ClaimedByAll(evicted) \ ClaimedByAll(kept))
                           => ~bc'.utxos[key].marked
                    /\ key \notin ClaimedByAll(evicted)
                           => bc'.utxos[key].marked = bc.utxos[key].marked
              /\ bc'.blocks = bc.blocks
              /\ bc'.orphan_children = bc.orphan_children))
      ]_vars

\* the sweep has evicted an entry that had marked an output, and kept another
C13_Witness ==
    /\ last.op = "cleanup"
    /\ last.evicted >= 1
    /\ Len(bc.mempool) >= 1
    /\ \E key \in DOMAIN bc.utxos :
           /\ ~bc.utxos[key].marked
           /\ key \notin ClaimedByAll(bc.mempool)
           /\ key \in Claimed(TxBobPay) \cup Claimed(TxPay)

\* the fee of a transaction: what its inputs hold minus what its outputs pay
FeeOf(transaction) == HeldBy(bc.utxos, transaction) - PaidBy(transaction)

\* C14: after add_to_mempool has admitted a transaction the mempool is in
\* descending order of fee, so the entries a proposer takes from its front,
\* BLOCK_TRANSACTION_CAP at most, pay fees no lower than any entry it leaves
C14_DescendingFee ==
    (last.op = "NewTransaction" /\ last.res = "Ok")
        => /\ \A i, j \in DOMAIN bc.mempool :
                  i < j => FeeOf(bc.mempool[i].transaction)
                               >= FeeOf(bc.mempool[j].transaction)
           /\ \A i, j \in DOMAIN bc.mempool :
                  (i <= BLOCK_TRANSACTION_CAP /\ j > BLOCK_TRANSACTION_CAP)
                      => FeeOf(bc.mempool[i].transaction)
                             >= FeeOf(bc.mempool[j].transaction)

LockedStake(b, key) ==
    /\ b.utxos[key].output.is_stake
    /\ b.utxos[key].output.locked_until > block_height(b)

\* C15: add_to_mempool answers StakeLocked, and changes neither the mempool
\* nor a mark, for every transaction whose inputs all name outputs of the
\* index and one of whose inputs names a stake output locked beyond the
\* current height
C15_StakeLockedRejected ==
    [][\A tx \in RelayedTxs :
          (/\ NewTransaction(tx)
           /\ Claimed(tx) \subseteq DOMAIN bc.utxos
           /\ \E key \in Claimed(tx) : LockedStake(bc, key))
          => /\ last'.res = "StakeLocked"
             /\ bc'.mempool = bc.mempool
             /\ bc'.utxos = bc.utxos
      ]_vars

\* two inputs of the transactions after the coinbase, of one transaction or
\* of two, name the same output hash
SharesAnInput(block) ==
    \E t, u \in 2..Len(block.transactions) :
        \E i \in DOMAIN block.transactions[t].inputs :
            \E j \in DOMAIN block.transactions[u].inputs :
                /\ (t # u \/ i # j)
                /\ block.transactions[t].inputs[i].prev_transaction_output_hash
                       = block.transactions[u].inputs[j].prev_transaction_output_hash

PassesHeaderChecks(b, block) ==
    /\ b.blocks # <<>>
    /\ block.header.prev_block_hash = Hash(Last(b.blocks))
    /\ ~LotteryPanics(b)
    /\ block.header.validator = get_next_validator(b, block.header.prev_block_hash)
    /\ Verify(block.signature, Hash(block.header), block.header.validator)
    /\ block.header.merkle_root = MerkleRoot(block.transactions)
    /\ block.header.timestamp > Last(b.blocks).header.timestamp

\* C18: add_block answers InvalidTransaction, and leaves the engine as it
\* was, for every block that extends the tip, passes the validator,
\* signature, merkle-root and timestamp checks, and has two inputs outside
\* the coinbase that name the same output hash
C18_SharedInputRejected ==
    [][(/\ last'.op = "NewBlock"
        /\ PassesHeaderChecks(bc, last'.block)
        /\ SharesAnInput(last'.block))
       => /\ last'.res = "InvalidTransaction"
          /\ bc' = bc
      ]_vars

\* such a block has been handed in: one with the shared input in two
\* transactions, or one with it twice in one transaction
C18_Witness ==
    /\ last.op = "NewBlock"
    /\ last.res = "InvalidTransaction"
    /\ PassesHeaderChecks(bc, last.block)
    /\ SharesAnInput(last.block)
    /\ Len(last.block.transactions) = 3
    /\ last.block.transactions[2] # last.block.transactions[3]

\* a transaction that spends one stake output of the index and pays out no
\* more than that output holds
SpendsOneStake(b, transaction) ==
    /\ Len(transaction.inputs) = 1
    /\ Claimed(transaction) \subseteq DOMAIN b.utxos
    /\ \A key \in Claimed(transaction) : b.utxos[key].output.is_stake
    /\ HeldBy(b.utxos, transaction) >= PaidBy(transaction)

LockOf(b, transaction) ==
    b.utxos[transaction.inputs[1].prev_transaction_output_hash].output.locked_until

\* C16 as stated, for a stake locked until any height L (the claim's L is
\* 100): add_to_mempool refuses to spend it with StakeLocked at every height
\* up to and including L, and admits the spend only at heights above L
C16_LockedThroughHeight ==
    [][(last'.op = "NewTransaction" /\ SpendsOneStake(bc, last'.tx))
       => IF LockOf(bc, last'.tx) >= block_height(bc)
          THEN last'.res = "StakeLocked"
          ELSE last'.res = "Ok" /\ last'.tx \in Pooled(bc')
      ]_vars

\* C16, amended: add_to_mempool refuses to spend a stake locked until height
\* L with StakeLocked, leaving the engine as it was, at every height below L,
\* and admits the spend at height L and at every height above it
C16_LockedBelowHeight ==
    [][(last'.op = "NewTransaction" /\ SpendsOneStake(bc, last'.tx))
       => IF LockOf(bc, last'.tx) > block_height(bc)
          THEN last'.res = "StakeLocked" /\ bc' = bc
          ELSE last'.res = "Ok" /\ last'.tx \in Pooled(bc')
      ]_vars

\* the spend of a stake has been admitted at the very height its lock names
C16_Witness ==
    /\ last.op = "NewTransaction"
    /\ last.res = "Ok"
    /\ last.tx = TxWithdraw
    /\ Hash(StakeB2) \in DOMAIN bc.utxos
    /\ bc.utxos[Hash(StakeB2)].marked
    /\ block_height(bc) = StakeB2.locked_until

\* C17: no block of the chain has an input that names a stake output whose
\* lock was beyond the height of the chain the block was appended to
C17_LockedStakeUnspent ==
    \A n \in 2..Len(bc.blocks) :
        \A t \in DOMAIN bc.blocks[n].transactions :
            \A key \in Claimed(bc.blocks[n].transactions[t]) :
                (\E o \in OutputsOfTxs(ChainTransactions(SubSeq(bc.blocks, 1, n - 1))) :
                     Hash(o) = key)
                => With(OutputByKey(SubSeq(bc.blocks, 1, n - 1), key), LAMBDA o :
                       ~(o.is_stake /\ o.locked_until > n - 1))

\* the total of a stake table
TotalOf(stakes) == SetSum(DOMAIN stakes, stakes)

\* the first key, in ascending order, at which the running sum of a stake
\* table exceeds r
FirstAbove(stakes, r) ==
    CHOOSE p \in DOMAIN stakes :
        /\ SetSum({q \in DOMAIN stakes : q <= p}, stakes) > r
        /\ \A o \in DOMAIN stakes :
               SetSum({q \in DOMAIN stakes : q <= o}, stakes) > r => p <= o

\* C19: get_next_validator returns none exactly when the stakes of the
\* active stake table sum to zero; otherwise it returns the first key, in
\* ascending order, at which the running sum of the stakes exceeds the
\* seed's first eight bytes modulo that total
C19_Lottery ==
    last.op = "get_next_validator"
        => /\ (last.res = NoValidator) <=> (TotalOf(last.stakes) = 0)
           /\ TotalOf(last.stakes) # 0
                  => last.res = FirstAbove(last.stakes,
                                           Bytes8(last.seed) % TotalOf(last.stakes))

\* what the stake outputs of a key hold in the index while their lock is
\* beyond the height, less what the key was slashed
NetStake(b, pubkey) ==
    With(SetSum({k \in DOMAIN b.utxos :
                    /\ b.utxos[k].output.pubkey = pubkey
                    /\ b.utxos[k].output.is_stake
                    /\ b.utxos[k].output.locked_until > Len(b.blocks)},
                [k \in DOMAIN b.utxos |-> b.utxos[k].output.value]),
         LAMBDA staked :
    With(IF pubkey \in DOMAIN b.slashed_amounts THEN b.slashed_amounts[pubkey] ELSE 0,
         LAMBDA slashed :
        IF staked >= slashed THEN staked - slashed ELSE 0))

\* C20: calculate_stakes returns, for each key, the sum of the values of the
\* stake outputs of the index that are locked beyond the current height, less
\* the key's slashed amount and not below zero, and holds exactly the keys
\* for which that is STAKE_MINIMUM_AMOUNT or more
C20_StakeTable ==
    last.op = "get_next_validator"
        => \A p \in Keys :
               /\ p \in DOMAIN last.stakes <=> NetStake(bc, p) >= STAKE_MINIMUM_AMOUNT
               /\ p \in DOMAIN last.stakes => last.stakes[p] = NetStake(bc, p)

\* C21: in every reachable state, the merkle root recomputed from the
\* transaction list of each block of the chain, the first block included,
\* equals the merkle root of the block's header
C21_MerkleRootsMatch ==
    \A i \in DOMAIN bc.blocks :
        MerkleRoot(bc.blocks[i].transactions) = bc.blocks[i].header.merkle_root

StrictlyLater(blocks) ==
    \A i \in 2..Len(blocks) :
        blocks[i].header.timestamp > blocks[i - 1].header.timestamp

\* C22: block timestamps increase strictly along the chain in every reachable
\* state, and a block that extends the tip and passes the validator, signature
\* and merkle root checks with a timestamp not above the tip's is rejected with
\* InvalidBlock, the engine left as it was
C22_TimestampsIncrease ==
    /\ []StrictlyLater(bc.blocks)
    /\ [][(/\ last'.op = "NewBlock"
           /\ bc.blocks # <<>>
           /\ last'.block.header.prev_block_hash = TipHash(bc)
           /\ CheckValidator(bc, last'.block) = "Ok"
           /\ CheckSignature(last'.block) = "Ok"
           /\ CheckMerkleRoot(last'.block) = "Ok"
           /\ last'.block.header.timestamp <= TipTime(bc))
          => (last'.res = "InvalidBlock" /\ bc' = bc)
         ]_vars

\* a block with the tip's timestamp, proposed by the lottery's winner on a
\* chain of two blocks, was rejected with InvalidBlock
C22_Witness ==
    /\ last.op = "NewBlock"
    /\ last.res = "InvalidBlock"
    /\ Len(bc.blocks) = 2
    /\ last.block.header.prev_block_hash = TipHash(bc)
    /\ last.block.header.timestamp = TipTime(bc)

\* C23: when add_block appends a block, the block is the next element of the
\* chain and the chain before it is unchanged; the mempool keeps, in their
\* order, exactly the entries whose transaction hash is not a transaction of
\* the block (nor of a parked descendant the drain appended after it); and
\* the drain has run from the block's hash: with nothing parked under it the
\* block is the tip, the first block parked under it that passes the checks
\* on the new tip is the next block of the chain, and what the cache holds
\* under it afterwards was parked under it before
C23_AppendFrame ==
    [][(/\ last'.op \in {"NewBlock", "add_block"}
        /\ last'.res = "Ok"
        /\ block_height(bc') > block_height(bc))
       => /\ bc'.blocks[block_height(bc) + 1] = last'.block
          /\ SubSeq(bc'.blocks, 1, block_height(bc)) = bc.blocks
          /\ bc'.mempool =
                SelectSeq(bc.mempool, LAMBDA e :
                    \A i \in (block_height(bc) + 1)..block_height(bc') :
                        \A j \in DOMAIN bc'.blocks[i].transactions :
                            Hash(e.transaction) # Hash(bc'.blocks[i].transactions[j]))
          /\ LET seed == Hash(last'.block)
                 parked == IF seed \in DOMAIN bc.orphan_children
                           THEN bc.orphan_children[seed] ELSE <<>>
                 left == IF seed \in DOMAIN bc'.orphan_children
                         THEN bc'.orphan_children[seed] ELSE <<>>
                 passing == SelectSeq(parked, LAMBDA child :
                                CheckBlock(PushBlock(bc, last'.block), child) = "Ok")
             IN  /\ parked = <<>> => Last(bc'.blocks) = last'.block
                 /\ passing # <<>>
                        => /\ block_height(bc') > block_height(bc) + 1
                           /\ bc'.blocks[block_height(bc) + 2] = Head(passing)
                 /\ SeqToSet(left) \subseteq SeqToSet(parked)
                 /\ Len(left) <= Len(parked)
                 /\ passing # <<>> => Len(left) < Len(parked)
      ]_vars

\* the block after the genesis block confirmed TxPay, which the mempool had
\* admitted (its input is still marked) and holds no longer; TxBobPay, not in
\* the block, is still in the mempool
C23_Witness ==
    /\ last.op = "NewBlock"
    /\ last.res = "Ok"
    /\ Len(bc.blocks) = 2
    /\ last.block = bc.blocks[2]
    /\ TxPay \in SeqToSet(last.block.transactions)
    /\ bc.utxos[Hash(SpendableA)].marked
    /\ Pooled(bc) = {TxBobPay}

\* C24: a valid block that extends the tip is appended as the next block of
\* the chain and add_block succeeds; the same block handed to add_block again
\* right after succeeds too, leaves the chain unchanged and parks the block in
\* the orphan cache at the end of the list under its prev_block_hash
C24_SecondSubmissionParked ==
    [][/\ (/\ last'.op = "NewBlock"
           /\ bc.blocks # <<>>
           /\ last'.block.header.prev_block_hash = TipHash(bc)
           /\ CheckBlock(bc, last'.block) = "Ok")
          => /\ last'.res = "Ok"
             /\ bc'.blocks[block_height(bc) + 1] = last'.block
             /\ SubSeq(bc'.blocks, 1, block_height(bc)) = bc.blocks
             /\ (Hash(last'.block) \notin DOMAIN bc.orphan_children
                    => block_height(bc') = block_height(bc) + 1)
       /\ (/\ last.op = "NewBlock"
           /\ last.res = "Ok"
           /\ last.h0 < block_height(bc)
           /\ bc.blocks[last.h0 + 1] = last.block
           /\ last'.op = "NewBlock"
           /\ last'.block = last.block)
          => /\ last'.res = "Ok"
             /\ bc'.blocks = bc.blocks
             /\ bc'.utxos = bc.utxos
             /\ bc'.mempool = bc.mempool
             /\ bc'.orphan_children =
                   MapInsert(bc.orphan_children, last.block.header.prev_block_hash,
                             Append(ParkedUnder(bc, last.block.header.prev_block_hash),
                                    last.block))
      ]_vars

\* the tip was appended by a NewBlock and announced again: it is the tip and
\* it is parked under the hash of the block before it
C24_Witness ==
    /\ last.op = "NewBlock"
    /\ last.res = "Ok"
    /\ last.h0 = block_height(bc)
    /\ Len(bc.blocks) >= 2
    /\ last.block = Last(bc.blocks)
    /\ last.block \in SeqToSet(ParkedUnder(bc, last.block.header.prev_block_hash))

ActiveStake(b, pubkey) ==
    IF pubkey \in DOMAIN calculate_stakes(b) THEN calculate_stakes(b)[pubkey] ELSE 0

\* floor(stake * rate / 10000), rate 1000 for double signing and 100 for
\* downtime, computed without a product that leaves the machine word
NamedPenalty(stake, reason) ==
    With(IF reason = "DoubleSigning" THEN 1000 ELSE 100, LAMBDA rate :
        (stake \div 10000) * rate + ((stake % 10000) * rate) \div 10000)

SlashedSoFar(b, pubkey) ==
    IF pubkey \in DOMAIN b.slashed_amounts THEN b.slashed_amounts[pubkey] ELSE 0

\* C25: slash_validator on a validator whose active stake is s > 0 succeeds
\* and returns s * rate / 10000 (integer division; rate 1000 for DoubleSigning,
\* 100 for Downtime), adds that penalty to slashed_amounts[pubkey], appends
\* one record (validator, current height, reason, penalty) at the end of the
\* slashing history, and leaves the earlier records, the blocks, the UTXOs and
\* the mempool unchanged
C25_SlashRecorded ==
    [][(last'.op = "slash_validator" /\ ActiveStake(bc, last'.pubkey) > 0)
       => /\ last'.res = "Ok"
          /\ last'.penalty = NamedPenalty(ActiveStake(bc, last'.pubkey), last'.reason)
          /\ bc'.slashed_amounts =
                MapInsert(bc.slashed_amounts, last'.pubkey,
                          SlashedSoFar(bc, last'.pubkey) + last'.penalty)
          /\ bc'.slashing_history =
                Append(bc.slashing_history,
                       [validator |-> last'.pubkey, block_height |-> block_height(bc),
                        reason |-> last'.reason, penalty_amount |-> last'.penalty])
          /\ bc'.blocks = bc.blocks
          /\ bc'.utxos = bc.utxos
          /\ bc'.mempool = bc.mempool
      ]_vars

\* C26: slash_validator for a pubkey that has no stake in the active stake
\* table fails with InvalidValidator and changes neither slashed_amounts nor
\* the slashing history (nor anything else of the engine)
C26_NoStakeNoSlash ==
    [][(/\ last'.op = "slash_validator"
        /\ ~(\E p \in Keys : HasLockedStake(bc, p) /\ LockedStakeOf(bc, p) = PANIC)
        /\ last'.pubkey \notin DOMAIN calculate_stakes(bc))
       => (last'.res = "InvalidValidator" /\ bc' = bc)
      ]_vars

\* a validator that was slashed out of the stake table (a record is in the
\* history) is slashed again and the call fails
C26_Witness ==
    /\ last.op = "slash_validator"
    /\ last.res = "InvalidValidator"
    /\ bc.slashing_history # <<>>
    /\ last.pubkey \in DOMAIN bc.slashed_amounts
    /\ last.pubkey \notin DOMAIN calculate_stakes(bc)

\* 50 * 10^8 halved floor(height / 210) times, as [coins, units]
NamedReward(height) == ShiftRight([coins |-> 50, units |-> 0], height \div 210)

AtMost(a, b) == a.coins < b.coins \/ (a.coins = b.coins /\ a.units <= b.units)

\* C27: calculate_block_reward at height h is 50 * 10^8 shifted right by
\* floor(h / 210): 5,000,000,000 for h in 0..209, 2,500,000,000 at 210,
\* 1,250,000,000 at 420; and it is never above the reward at height h - 1
C27_RewardHalves ==
    last.op = "calculate_block_reward"
    => /\ last.res.err = "Ok"
       /\ last.res.coins = NamedReward(last.height).coins
       /\ last.res.units = NamedReward(last.height).units
       /\ (last.height <= 209 => last.res.coins = 50 /\ last.res.units = 0)
       /\ (last.height = 210 => last.res.coins = 25 /\ last.res.units = 0)
       /\ (last.height = 420 => last.res.coins = 12 /\ last.res.units = 50000000)
       /\ (last.height > 0
             => /\ block_reward(last.height - 1).err = "Ok"
                /\ AtMost(last.res, block_reward(last.height - 1)))

\* C30: the file save writes loads back to the blocks, UTXO entries, slashing
\* history and slashed amounts of the engine saved, with an empty mempool and
\* an empty orphan cache; and load_blockchain (load, then rebuild_utxos) leaves
\* the file's blocks, slashing history and slashed amounts in the engine with
\* no UTXO marked
C30_SnapshotRoundTrip ==
    [][/\ (last'.op = "save")
          => /\ load(disk').blocks = bc.blocks
             /\ load(disk').utxos = bc.utxos
             /\ load(disk').slashing_history = bc.slashing_history
             /\ load(disk').slashed_amounts = bc.slashed_amounts
             /\ load(disk').mempool = <<>>
             /\ DOMAIN load(disk').orphan_children = {}
       /\ (last'.op = "load_blockchain")
          => /\ bc'.blocks = load(disk).blocks
             /\ bc'.slashing_history = load(disk).slashing_history
             /\ bc'.slashed_amounts = load(disk).slashed_amounts
             /\ bc'.mempool = <<>>
             /\ DOMAIN bc'.orphan_children = {}
             /\ \A k \in DOMAIN bc'.utxos : ~bc'.utxos[k].marked
      ]_vars

\* a validator started again from a file that was saved with a marked output,
\* a slashing record and a chain of two blocks or more
C30_Witness ==
    /\ last.op = "load_blockchain"
    /\ \E p \in disk.utxos : p[2].marked
    /\ bc.slashing_history # <<>>
    /\ Len(bc.blocks) >= 2

\* C28: when add_block rejects a block received as NewBlock the connection
\* stays open, so the handler reads the next message; when add_to_mempool
\* rejects a transaction received as NewTransaction or SubmitTransaction the
\* connection is closed; and once it is closed nothing more is processed
\* from it: it stays closed and the engine is not changed through it
C28_RejectionAndConnection ==
    [][/\ (last'.op = "NewBlock" /\ last'.res \notin {"Ok", "Panic"})
          => conn' = "open"
       /\ (last'.op \in {"NewTransaction", "SubmitTransaction"}
           /\ last'.res \notin {"Ok", "Panic"})
          => conn' = "closed"
       /\ (conn = "closed") => (conn' = "closed" /\ bc' = bc)
      ]_vars

\* a transaction that spends a locked stake was relayed, refused, and the
\* connection is closed
C28_Witness ==
    /\ last.op = "NewTransaction"
    /\ last.res = "StakeLocked"
    /\ last.tx = TxUnstake
    /\ conn = "closed"

\* C29: on SubmitTemplate(block) and on SubmitTransaction(tx) the handler
\* sends NewBlock(block), respectively NewTransaction(tx), once to every peer
\* of the peer set when add_block, respectively add_to_mempool, succeeded,
\* whichever of the sends fail; when it did not succeed nothing is sent
C29_GossipIffAccepted ==
    [][(last'.op \in {"SubmitTemplate", "SubmitTransaction"})
       => IF last'.res = "Ok"
          THEN /\ DOMAIN last'.sent.sends = PeerNames
               /\ last'.sent.message =
                     (IF last'.op = "SubmitTemplate" THEN "NewBlock"
                      ELSE "NewTransaction")
          ELSE DOMAIN last'.sent.sends = {}
      ]_vars

\* a submitted transaction was admitted and forwarded; the send to one peer
\* failed and the send to the other did not
C29_Witness ==
    /\ last.op = "SubmitTransaction"
    /\ last.res = "Ok"
    /\ \E p, q \in DOMAIN last.sent.sends : last.sent.sends[p] /\ ~last.sent.sends[q]

\* C31: a block that extends a non-empty tip is answered by the first check
\* it fails, in the order proposer (InvalidValidator), block signature
\* (InvalidSignature), merkle root (InvalidMerkleRoot), timestamp
\* (InvalidBlock), transactions; a block that fails none is accepted
C31_FirstFailingCheck ==
    [][(/\ last'.op = "NewBlock"
        /\ bc.blocks # <<>>
        /\ last'.block.header.prev_block_hash = TipHash(bc))
       => LET header == last'.block.header
              winner == get_next_validator(bc, header.prev_block_hash)
          IN  last'.res =
                IF header.validator # winner THEN "InvalidValidator"
                ELSE IF last'.block.signature # Sign(Hash(header), header.validator)
                THEN "InvalidSignature"
                ELSE IF header.merkle_root # MerkleRoot(last'.block.transactions)
                THEN "InvalidMerkleRoot"
                ELSE IF header.timestamp <= TipTime(bc) THEN "InvalidBlock"
                ELSE verify_transactions(last'.block, bc.utxos)
      ]_vars

\* a block of the lottery's winner that fails the signature, merkle root,
\* timestamp and transaction checks at once was answered InvalidSignature
C31_Witness ==
    /\ last.op = "NewBlock"
    /\ last.res = "InvalidSignature"
    /\ last.h0 = block_height(bc)
    /\ last.block.header.prev_block_hash = TipHash(bc)
    /\ last.block.header.merkle_root # MerkleRoot(last.block.transactions)
    /\ last.block.header.timestamp <= TipTime(bc)
    /\ verify_transactions(last.block, bc.utxos) = "InvalidTransaction"

\* C32: when add_block returns an error, whoever called it (the peer
\* handler, the proposer's self-append, the boot) leaves the engine as it
\* was: chain, UTXO index with its marks, mempool, orphan cache, slashing
\* history and slashed amounts
C32_ErrorLeavesEngine ==
    [][(/\ last'.op \in {"genesis", "add_block", "NewBlock", "SubmitTemplate",
                         "propose_block"}
        /\ last'.res \notin {"Ok", "Panic"})
       => bc' = bc
      ]_vars

\* the proposer's own block was rejected while the mempool held an entry
\* and its input was marked
C32_Witness ==
    /\ last.op = "propose_block"
    /\ last.res \notin {"Ok", "Panic"}
    /\ bc.mempool # <<>>
    /\ \E key \in DOMAIN bc.utxos : bc.utxos[key].marked
    /\ \E i \in DOMAIN last.block.transactions :
           last.block.transactions[i] = bc.mempool[1].transaction

\* C33: when add_to_mempool returns an error, the mempool and the marked
\* flag of every output of the index are what they were before the call
C33_RejectionLeavesMempool ==
    [][(/\ last'.op = "NewTransaction"
        /\ last'.res \notin {"Ok", "Panic"})
       => /\ bc'.mempool = bc.mempool
          /\ DOMAIN bc'.utxos = DOMAIN bc.utxos
          /\ \A key \in DOMAIN bc.utxos :
                 bc'.utxos[key].marked = bc.utxos[key].marked
      ]_vars

\* C36: every input of every mempool entry names an output that is in the
\* UTXO index
C36_MempoolInputsIndexed ==
    \A i \in DOMAIN bc.mempool :
        Claimed(bc.mempool[i].transaction) \subseteq DOMAIN bc.utxos

\* C37: an output of the index is marked if and only if an entry of the
\* mempool has an input that names it
C37_MarkedIffClaimed ==
    \A key \in DOMAIN bc.utxos :
        bc.utxos[key].marked <=> key \in ClaimedByAll(bc.mempool)

\* a transaction after the coinbase spends outputs of the index that hold
\* less than its outputs pay
Deficient(b, block) ==
    \E t \in 2..Len(block.transactions) :
        /\ Claimed(block.transactions[t]) \subseteq DOMAIN b.utxos
        /\ HeldBy(b.utxos, block.transactions[t]) < PaidBy(block.transactions[t])

\* C34: add_block answers InvalidTransaction for every block that extends the
\* tip, passes the validator, signature, merkle-root and timestamp checks and
\* holds a transaction after the coinbase whose inputs are worth less than
\* its outputs
C34_DeficientRejected ==
    [][(/\ last'.op = "NewBlock"
        /\ PassesHeaderChecks(bc, last'.block)
        /\ Deficient(bc, last'.block))
       => last'.res = "InvalidTransaction"
      ]_vars

\* C35: get_effective_stake(pubkey) is the validator's locked stake less its
\* accumulated slashed amount, not below zero, and is the value
\* calculate_stakes holds for the pubkey whenever it holds one
C35_EffectiveStake ==
    last.op = "get_effective_stake"
        => /\ last.res = NetStake(bc, last.pubkey)
           /\ last.pubkey \in DOMAIN calculate_stakes(bc)
                 => last.res = calculate_stakes(bc)[last.pubkey]

\* the values of the outputs of an index, and of the outputs of a block
IndexValue(utxos) ==
    SetSum(DOMAIN utxos, [key \in DOMAIN utxos |-> utxos[key].output.value])

BlockValue(block) ==
    SetSum(DOMAIN block.transactions,
           [t \in DOMAIN block.transactions |-> PaidBy(block.transactions[t])])

\* C38: right after rebuild_utxos the outputs of the UTXO index are worth what
\* the outputs of the first block of the chain are worth
C38_ValueConserved ==
    (/\ role = "validator"
     /\ last.op \in {"genesis", "SubmitTemplate", "propose_block"}
     /\ last.res = "Ok")
        => IndexValue(bc.utxos) = BlockValue(bc.blocks[1])

\* C39: when propose_block has succeeded (the self-append answered Ok and the
\* block goes out to the peers), the proposed block is a block of the local
\* chain
C39_ProposedBlockInChain ==
    (last.op = "propose_block" /\ last.res = "Ok")
        => last.block \in SeqToSet(bc.blocks)

\* C40: after every add_block call, the orphan cache holds no list under the
\* hash of the tip of the chain
C40_NothingParkedUnderTip ==
    bc.blocks # <<>> => TipHash(bc) \notin DOMAIN bc.orphan_children

\* one call appended the announced block, a child parked under it and the
\* grandchild parked under that child, and the second child of the block is
\* parked again under it
C40_Witness ==
    /\ last.op = "NewBlock"
    /\ last.res = "Ok"
    /\ block_height(bc) = last.h0 + 3
    /\ bc.blocks[last.h0 + 1] = last.block
    /\ Hash(last.block) \in DOMAIN bc.orphan_children
    /\ \A i \in DOMAIN bc.orphan_children[Hash(last.block)] :
           bc.orphan_children[Hash(last.block)][i].header.prev_block_hash
               = Hash(last.block)

====
